---- MODULE Spec2Model ----
(***************************************************************************)
(* joaodelgado/maze: a grid maze that is carved by one of five generators  *)
(* (recursive backtracker, Kruskal, Prim, Eller, Hunt-and-Kill) and then   *)
(* searched by one of five solvers (DFS, BFS, Dijkstra, Greedy, A-star).  Each *)
(* algorithm is a state machine advanced by tick(); the model keeps the    *)
(* Maze, the generator and the solver as records and applies one tick per  *)
(* step.                                                                   *)
(***************************************************************************)
EXTENDS Integers, Sequences, FiniteSets, TLC

VARIABLES
    maze,     \* the Maze
    gen,      \* the Generator
    solver,   \* the Solver, once solving has started
    phase,    \* what the run is doing: "generate", "link" or "solve"
    result,   \* the Result of the last call: "Ok" or the Error
    post,     \* a tick has been made on an algorithm whose is_done() was true
    ticks,    \* the ticks of the current phase made while is_done() was false
    maze2,    \* the Maze of the second run when two runs are compared
    gen2,     \* the Generator of the second run
    call,     \* the function called on its own and its arguments, if any
    ret       \* what that call returned

vars == <<maze, gen, solver, phase, result, post, ticks, maze2, gen2, call, ret>>

(***************************************************************************)
(* Bounds of the model.                                                    *)
(***************************************************************************)
\* grids of the main specification have at most this many cells
MaxCells == 6
\* cell sizes (pixels) range over 1..MaxCellSize: odd and even sizes
MaxCellSize == 2
\* Kruskal keeps a shuffled list of walls: it is run on grids with at most
\* this many interior walls
MaxKruskalWalls == 4
\* grids of the specification that links cells by hand have at most this many cells
MaxLinkCells == 4
\* grids of the specification that runs a generator twice have at most this
\* many cells, and Kruskal is run twice on at most this many interior walls
MaxDetCells == 4
MaxDetWalls == 3
\* the functions of Coord are called on grids of at most this many columns and
\* rows, with cells of at most this size
MaxCoordSide == 3
MaxCoordCellSize == 4
\* Maze::new is run on grids of at most this many cells, and the random source
\* is asked for at most this many coordinates
MaxNewCells == 4
MaxDraws == 3
\* A-star is run on grids of at most this many columns and rows
MaxAStarSide == 3
MaxEllerSide == 3
MaxHuntCells == 12

\* Option<T>: None is the empty tuple, Some(v) the tuple holding v
None == <<>>

Some(v) == <<v>>

(***************************************************************************)
(* Helpers for Rust values.                                                *)
(***************************************************************************)
\* i32 division truncates toward zero
div(a, b) == IF a >= 0 THEN a \div b ELSE -((-a) \div b)

abs(a) == IF a >= 0 THEN a ELSE -a

Range(s) == {s[i] : i \in 1..Len(s)}

\* the sequences that hold every element of S once
RECURSIVE Orders(_)
Orders(S) ==
    IF S = {} THEN {<<>>}
    ELSE UNION {{<<x>> \o q : q \in Orders(S \ {x})} : x \in S}

\* the permutations of 1..n
Perms(n) == Orders(1..n)

\* the orders in which a HashSet (RandomState) may hand out its elements
HashIter(S) == Orders(S)

\* Vec::remove_item: drops the first occurrence of x, if any
RECURSIVE remove_item(_, _)
remove_item(s, x) ==
    IF s = <<>> THEN <<>>
    ELSE IF Head(s) = x THEN Tail(s)
    ELSE <<Head(s)>> \o remove_item(Tail(s), x)

\* Rng::shuffle with the permutation p drawn by the random source
shuffle(s, p) == [i \in 1..Len(s) |-> s[p[i]]]

\* Iterator::find: the first element satisfying Test, as an Option
find(s, Test(_)) ==
    LET hits == SelectSeq(s, Test)
    IN IF hits = <<>> THEN None ELSE Some(hits[1])

(***************************************************************************)
(* maze.rs: Point, Coord, Wall.                                            *)
(***************************************************************************)
Directions == <<"North", "East", "South", "West">>

Coord(x, y) == [x |-> x, y |-> y]

Point(x, y) == [x |-> x, y |-> y]

cell_width(config) == config.cell_size

cell_height(config) == config.cell_size

Point_into_coord(p, cw, ch) == Coord(div(p.x - div(cw, 2), cw), div(p.y - div(ch, 2), ch))

into_point(c, cw, ch) == Point(c.x * cw + div(cw, 2), c.y * ch + div(ch, 2))

manhattan_dist(a, b) == abs(a.x - b.x) + abs(a.y - b.y)

Wall(center, orientation, border, size) ==
    [center |-> center, orientation |-> orientation, border |-> border, size |-> size]

north_wall(c, config) ==
    LET as_point == into_point(c, cell_width(config), cell_height(config))
        offset == IF cell_height(config) % 2 = 0
                  THEN div(cell_height(config), 2)
                  ELSE div(cell_height(config) + 1, 2)
    IN Wall(Point(as_point.x, as_point.y - offset), "Horizontal", c.y = 0, cell_height(config))

east_wall(c, config) ==
    LET as_point == into_point(c, cell_width(config), cell_height(config))
    IN Wall(Point(as_point.x + div(cell_width(config), 2), as_point.y), "Vertical",
            c.x = config.maze_width - 1, cell_width(config))

south_wall(c, config) ==
    LET as_point == into_point(c, cell_width(config), cell_height(config))
    IN Wall(Point(as_point.x, as_point.y + div(cell_height(config), 2)), "Horizontal",
            c.y = config.maze_height - 1, cell_height(config))

\* west_wall with the offset of east_wall, cell_width / 2, whatever the parity
west_wall_HalfOffset(c, config) ==
    LET as_point == into_point(c, cell_width(config), cell_height(config))
    IN Wall(Point(as_point.x - div(cell_width(config), 2), as_point.y), "Vertical",
            c.x = 0, cell_width(config))

west_wall(c, config) ==
    LET as_point == into_point(c, cell_width(config), cell_height(config))
        offset == IF cell_width(config) % 2 = 0
                  THEN div(cell_width(config), 2)
                  ELSE div(cell_width(config) + 1, 2)
    IN Wall(Point(as_point.x - offset, as_point.y), "Vertical", c.x = 0, cell_width(config))

wall(c, d, config) ==
    CASE d = "North" -> north_wall(c, config)
      [] d = "East" -> east_wall(c, config)
      [] d = "South" -> south_wall(c, config)
      [] d = "West" -> west_wall(c, config)

walls(c, config) == {wall(c, d, config) : d \in Range(Directions)}

removable(w) == ~w.border

\* valid_coord with the bounds taken as maze_width and maze_height themselves
valid_coord_OffByOne(c, maze_width, maze_height) ==
    c.x >= 0 /\ c.x <= maze_width /\ c.y >= 0 /\ c.y <= maze_height

valid_coord(c, maze_width, maze_height) ==
    c.x >= 0 /\ c.x <= maze_width - 1 /\ c.y >= 0 /\ c.y <= maze_height - 1

\* the candidate with North and South exchanged
candidate_NorthSouthSwapped(c, d) ==
    CASE d = "North" -> Coord(c.x, c.y + 1)
      [] d = "East" -> Coord(c.x + 1, c.y)
      [] d = "South" -> Coord(c.x, c.y - 1)
      [] d = "West" -> Coord(c.x - 1, c.y)

candidate(c, d) ==
    CASE d = "North" -> Coord(c.x, c.y - 1)
      [] d = "East" -> Coord(c.x + 1, c.y)
      [] d = "South" -> Coord(c.x, c.y + 1)
      [] d = "West" -> Coord(c.x - 1, c.y)

neighbour(c, d, config) ==
    IF valid_coord(candidate(c, d), config.maze_width, config.maze_height)
    THEN Some(candidate(c, d))
    ELSE None

\* the in-bounds neighbours as (Coord, Direction) pairs, in the order N, E, S, W
neighbours(c, config) ==
    LET all == [i \in 1..4 |-> <<neighbour(c, Directions[i], config), Directions[i]>>]
        some == SelectSeq(all, LAMBDA n : n[1] # None)
    IN [i \in 1..Len(some) |-> <<some[i][1][1], some[i][2]>>]

(***************************************************************************)
(* maze.rs: Maze.                                                          *)
(***************************************************************************)
Coords(config) == {Coord(x, y) : x \in 0..(config.maze_width - 1), y \in 0..(config.maze_height - 1)}

\* Maze::new: every wall of every cell stands, the marker sets are empty; start
\* and end are the configured or drawn coordinates, end redrawn while equal to start
Maze_new(config, start, end) ==
    [config |-> config,
     walls |-> UNION {walls(c, config) : c \in Coords(config)},
     start |-> start,
     end |-> end,
     explored |-> {},
     highlight_bright |-> {},
     highlight_medium |-> {},
     highlight_dark |-> {}]

divided_coords(m, w) ==
    LET cw == cell_width(m.config)
        ch == cell_height(m.config)
    IN IF w.orientation = "Horizontal"
       THEN <<Point_into_coord(Point(w.center.x, w.center.y - div(ch, 2)), cw, ch),
              Point_into_coord(Point(w.center.x, w.center.y + div(ch, 2)), cw, ch)>>
       ELSE <<Point_into_coord(Point(w.center.x - div(cw, 2), w.center.y), cw, ch),
              Point_into_coord(Point(w.center.x + div(cw, 2), w.center.y), cw, ch)>>

\* Maze::link removing every removable wall of c1 instead of the shared one
Maze_link_AllWalls(m, c1, c2) ==
    LET found == SelectSeq(neighbours(c1, m.config), LAMBDA n : n[1] = c2)
    IN IF found = <<>> THEN [maze |-> m, result |-> "NotNeighbours"]
       ELSE LET w == wall(c1, found[1][2], m.config)
            IN IF ~removable(w) THEN [maze |-> m, result |-> "BorderWall"]
               ELSE [maze |-> [m EXCEPT !.walls = @ \ {x \in walls(c1, m.config) : removable(x)}],
                     result |-> "Ok"]

\* link that returns Ok where it should return NotNeighbours
Maze_link_NoError(m, c1, c2) ==
    LET found == SelectSeq(neighbours(c1, m.config), LAMBDA n : n[1] = c2)
    IN IF found = <<>> THEN [maze |-> m, result |-> "Ok"]
       ELSE LET w == wall(c1, found[1][2], m.config)
            IN IF ~removable(w) THEN [maze |-> m, result |-> "BorderWall"]
               ELSE [maze |-> [m EXCEPT !.walls = @ \ {w}], result |-> "Ok"]

\* Maze::link: the result and the maze after it
Maze_link(m, c1, c2) ==
    LET found == SelectSeq(neighbours(c1, m.config), LAMBDA n : n[1] = c2)
    IN IF found = <<>> THEN [maze |-> m, result |-> "NotNeighbours"]
       ELSE LET w == wall(c1, found[1][2], m.config)
            IN IF ~removable(w) THEN [maze |-> m, result |-> "BorderWall"]
               ELSE [maze |-> [m EXCEPT !.walls = @ \ {w}], result |-> "Ok"]

\* connected_neighbours without the test that the wall is gone
connected_neighbours_ThroughWalls(m, c) == neighbours(c, m.config)

connected_neighbours(m, c) ==
    SelectSeq(neighbours(c, m.config), LAMBDA n : wall(c, n[2], m.config) \notin m.walls)

(***************************************************************************)
(* generator.rs.  A tick is an operator from the generator g, the maze m   *)
(* and the values r the random source hands out during the tick to the     *)
(* generator, the maze and the Result after the tick.                      *)
(***************************************************************************)
Outcome(g, m, res) == [gen |-> g, maze |-> m, result |-> res]

\* ---- recursive backtracker ----
GenDFS_new(m) == [type |-> "DFS", current |-> Some(m.start), stack |-> <<>>]

\* available_neighbour without the stop at the end cell
GenDFS_available_neighbour_PassEnd(g, m, p) ==
    IF g.current = None THEN None
    ELSE find(shuffle(neighbours(g.current[1], m.config), p),
              LAMBDA n : n[1] \notin m.explored)

GenDFS_available_neighbour(g, m, p) ==
    IF g.current = None THEN None
    ELSE IF m.end = g.current[1] THEN None
    ELSE find(shuffle(neighbours(g.current[1], m.config), p),
              LAMBDA n : n[1] \notin m.explored)

\* a generator that never reports the end of its run
GenDFS_is_done_Never(g) == FALSE

GenDFS_is_done(g) == g.current = None

GenDFS_tick(g, m, p) ==
    LET m1 == [m EXCEPT !.highlight_bright = {}]
    IN IF g.current = None THEN Outcome(g, m1, "Ok")
       ELSE LET current == g.current[1]
                m2 == [m1 EXCEPT !.highlight_bright = @ \cup {current},
                                 !.highlight_medium = @ \cup {current},
                                 !.explored = @ \cup {current}]
                an == GenDFS_available_neighbour(g, m2, p)
            IN IF an # None
               THEN LET lk == Maze_link(m2, current, an[1][1])
                    IN IF lk.result # "Ok" THEN Outcome(g, lk.maze, lk.result)
                       ELSE Outcome([g EXCEPT !.stack = Append(@, current),
                                              !.current = Some(an[1][1])],
                                    lk.maze, "Ok")
               ELSE Outcome([g EXCEPT !.current = IF g.stack = <<>> THEN None
                                                  ELSE Some(g.stack[Len(g.stack)]),
                                      !.stack = IF g.stack = <<>> THEN <<>>
                                                ELSE SubSeq(g.stack, 1, Len(g.stack) - 1)],
                            [m2 EXCEPT !.highlight_medium = @ \ {current}], "Ok")

\* ---- Kruskal ----
\* Kruskal::new: the removable walls in the order `order` the hash set hands them
\* out, shuffled by the permutation p; one singleton set per cell.  `sets` is a
\* Vec of pairwise disjoint sets that the code only searches by membership and
\* counts, so it is kept as the set of its elements
Kruskal_new(m, order, p) ==
    [type |-> "Kruskal",
     walls |-> shuffle(order, p),
     sets |-> {{c} : c \in Coords(m.config)}]

\* drain_filter taking every set out of the Vec
Undrained_None(sets, c) == {}

\* Vec::drain_filter(|s| s.contains(c)): the sets that stay
Undrained(sets, c) == {s \in sets : c \notin s}

\* Kruskal::join: [gen, result], result one of "Joined", "Nop", "MissingSet"
Kruskal_join(g, c1, c2, m) ==
    LET with1 == {s \in g.sets : c1 \in s}
        rest1 == Undrained(g.sets, c1)
    IN IF with1 = {} THEN [gen |-> [g EXCEPT !.sets = rest1], result |-> "MissingSet"]
       ELSE LET c1_set == CHOOSE s \in with1 : TRUE
            IN IF c2 \in c1_set
               THEN [gen |-> [g EXCEPT !.sets = rest1 \cup {c1_set}], result |-> "Nop"]
               ELSE LET with2 == {s \in rest1 : c2 \in s}
                        rest2 == Undrained(rest1, c2)
                    IN IF with2 = {}
                       THEN [gen |-> [g EXCEPT !.sets = rest2], result |-> "MissingSet"]
                       ELSE LET c2_set == CHOOSE s \in with2 : TRUE
                                \* each c of c2_set drops from the pending list the
                                \* walls towards the cells already in c1_set, then
                                \* joins c1_set: whatever the iteration order, the
                                \* walls dropped are those between a cell of c2_set
                                \* and a cell of either set
                                dropped == UNION {{wall(c, n[2], m.config) :
                                              n \in {nn \in Range(neighbours(c, m.config)) :
                                                        nn[1] \in c1_set \cup c2_set}} :
                                              c \in c2_set}
                            IN [gen |-> [g EXCEPT
                                    !.walls = SelectSeq(@, LAMBDA w : w \notin dropped),
                                    !.sets = rest2 \cup {c1_set \cup c2_set}],
                                result |-> "Joined"]

Kruskal_is_done(g) == g.walls = <<>> \/ Cardinality(g.sets) <= 1

Kruskal_tick(g, m) ==
    LET m1 == [m EXCEPT !.highlight_bright = {}]
    IN IF Kruskal_is_done(g) THEN Outcome(g, m1, "Ok")
       ELSE LET w == g.walls[Len(g.walls)]
                g1 == [g EXCEPT !.walls = SubSeq(@, 1, Len(@) - 1)]
                dc == divided_coords(m1, w)
                m2 == [m1 EXCEPT !.explored = @ \cup {dc[1], dc[2]},
                                 !.highlight_bright = @ \cup {dc[1], dc[2]}]
                j == Kruskal_join(g1, dc[1], dc[2], m2)
            IN CASE j.result = "MissingSet" -> Outcome(j.gen, m2, "MissingSet")
                 [] j.result = "Joined" -> Outcome(j.gen, [m2 EXCEPT !.walls = @ \ {w}], "Ok")
                 [] j.result = "Nop" -> Outcome(j.gen, m2, "Ok")

\* ---- Prim ----
Prim_new(m) == [type |-> "Prim", cells |-> {m.start}]

\* random_cell handing out a cell that need not be on the frontier
Prim_random_cell_AnyCell(g, order, i) ==
    IF g.cells = {} THEN None ELSE Some(Coord(0, 0))

\* Prim::random_cell: the cells are listed in the order the hash set hands them
\* out and the random source picks the position i
Prim_random_cell(g, order, i) ==
    IF g.cells = {} THEN None ELSE Some(order[i])

Prim_is_done(g) == g.cells = {}

\* r.order: an iteration order of g.cells; r.i: the position drawn in it;
\* r.j: the position drawn among the explored neighbours
Prim_tick(g, m, r) ==
    LET m1 == [m EXCEPT !.highlight_bright = {}]
        rc == Prim_random_cell(g, r.order, r.i)
    IN IF rc = None THEN Outcome(g, m1, "Ok")
       ELSE LET cell == rc[1]
            IN IF (cell = m1.start \/ cell = m1.end) /\ cell \in m1.explored
               THEN Outcome(g, m1, "Ok")
               ELSE LET m2 == [m1 EXCEPT !.explored = @ \cup {cell},
                                         !.highlight_medium = @ \ {cell},
                                         !.highlight_bright = @ \cup {cell}]
                        g1 == [g EXCEPT !.cells = @ \ {cell}]
                        explored_neighbours ==
                            SelectSeq(neighbours(cell, m2.config), LAMBDA n : n[1] \in m2.explored)
                        unknown_neighbours ==
                            SelectSeq(neighbours(cell, m2.config), LAMBDA n : n[1] \notin m2.explored)
                        m3 == IF explored_neighbours = <<>> THEN m2
                              ELSE [m2 EXCEPT !.walls =
                                      @ \ {wall(cell, explored_neighbours[r.j][2], m2.config)}]
                        unknown == {unknown_neighbours[k][1] : k \in 1..Len(unknown_neighbours)}
                    IN Outcome([g1 EXCEPT !.cells = @ \cup unknown],
                               [m3 EXCEPT !.highlight_medium = @ \cup unknown], "Ok")

\* the draws a Prim tick can receive in the state (g, m)
Prim_draws(g, m) ==
    IF g.cells = {} THEN {[order |-> <<>>, i |-> 1, j |-> 1]}
    ELSE {r \in [order : HashIter(g.cells), i : 1..Cardinality(g.cells), j : 1..4] :
            LET n == Len(SelectSeq(neighbours(r.order[r.i], m.config),
                                   LAMBDA nb : nb[1] \in m.explored \cup {r.order[r.i]}))
            IN IF n = 0 THEN r.j = 1 ELSE r.j <= n}

\* ---- Eller ----
Eller_new(m) ==
    [type |-> "Eller",
     current |-> Coord(0, 0),
     last_row |-> m.config.maze_height - 1,
     mode |-> "Horizontal",
     coord_to_set |-> (Coord(0, 0) :> 0),
     set_to_coords |-> (0 :> <<Coord(0, 0)>>),
     last_set |-> 0]

Eller_same_set(g, c1, c2) ==
    /\ c1 \in DOMAIN g.coord_to_set
    /\ c2 \in DOMAIN g.coord_to_set
    /\ g.coord_to_set[c1] = g.coord_to_set[c2]

\* the function f without the key k
Without(f, k) == [x \in DOMAIN f \ {k} |-> f[x]]

\* the branch of Eller::add for a new coordinate, forgetting coord_to_set
Eller_add_new_NoIndex(g, c, set) ==
    [g EXCEPT !.set_to_coords = IF set \in DOMAIN @
                                THEN [@ EXCEPT ![set] = Append(@, c)]
                                ELSE (set :> <<c>>) @@ @]

\* Eller::add, the branch for a coordinate that has no set
Eller_add_new(g, c, set) ==
    [g EXCEPT !.coord_to_set = (c :> set) @@ @,
              !.set_to_coords = IF set \in DOMAIN @
                                THEN [@ EXCEPT ![set] = Append(@, c)]
                                ELSE (set :> <<c>>) @@ @]

\* Eller::add panics when the set recorded for c is no key of set_to_coords
Eller_add_panics(g, c, set) ==
    /\ c \in DOMAIN g.coord_to_set
    /\ g.coord_to_set[c] # set
    /\ g.coord_to_set[c] \notin DOMAIN g.set_to_coords

Eller_add(g, c, set) ==
    IF c \in DOMAIN g.coord_to_set
    THEN LET current_set == g.coord_to_set[c]
         IN IF current_set = set THEN g
            ELSE LET g1 == [g EXCEPT !.coord_to_set = Without(@, c),
                                     !.set_to_coords[current_set] = remove_item(@, c)]
                     g2 == Eller_add_new(g1, c, set)
                 IN IF g2.set_to_coords[current_set] = <<>>
                    THEN [g2 EXCEPT !.set_to_coords = Without(@, current_set)]
                    ELSE g2
    ELSE Eller_add_new(g, c, set)

Eller_new_set(g, c) ==
    LET next_set == g.last_set + 1
    IN [Eller_add(g, c, next_set) EXCEPT !.last_set = next_set]

RECURSIVE Eller_add_all(_, _, _)
Eller_add_all(g, cells, set) ==
    IF cells = <<>> THEN g
    ELSE Eller_add_all(Eller_add(g, Head(cells), set), Tail(cells), set)

\* Eller::join panics on unreachable!() and on a missing index
Eller_join_panics(g, c1, c2) ==
    \/ Eller_same_set(g, c1, c2)
    \/ c1 \notin DOMAIN g.coord_to_set
    \/ /\ c2 \in DOMAIN g.coord_to_set
       /\ \/ g.coord_to_set[c2] \notin DOMAIN g.set_to_coords
          \/ \E c \in Range(g.set_to_coords[g.coord_to_set[c2]]) :
                Eller_add_panics(g, c, g.coord_to_set[c1])

\* Eller::join moving c2 alone and leaving the rest of its set behind
Eller_join_OnlyCell(g, c1, c2) == Eller_add(g, c2, g.coord_to_set[c1])

Eller_join(g, c1, c2) ==
    LET c1_set_idx == g.coord_to_set[c1]
    IN IF c2 \notin DOMAIN g.coord_to_set
       THEN Eller_add(g, c2, c1_set_idx)
       ELSE Eller_add_all(g, g.set_to_coords[g.coord_to_set[c2]], c1_set_idx)

\* connected_vertically answering yes for every set
Eller_connected_vertically_Always(g, set, m) == TRUE

Eller_connected_vertically(g, set, m) ==
    \E c \in Range(g.set_to_coords[set]) :
        c.y = g.current.y /\ south_wall(c, m.config) \notin m.walls

Eller_is_done(g) == g.mode = "Vertical" /\ g.current.y = g.last_row

\* the markers every Eller tick rewrites before it looks at the mode
Eller_mark(g, m) ==
    [m EXCEPT !.highlight_bright = {g.current},
              !.highlight_medium = {},
              !.highlight_dark = {Coord(x, g.current.y) : x \in 0..(m.config.maze_width - 1)},
              !.explored = @ \cup {g.current}]

\* b: the boolean random.gen() returns when the tick asks for one
Eller_tick_horizontal(g, m, b) ==
    LET current == g.current
        last_row == current.y = g.last_row
        east == neighbour(current, "East", m.config)
    IN IF east # None
       THEN LET nb == east[1]
            IN IF ~Eller_same_set(g, current, nb) /\ (last_row \/ b)
               THEN IF Eller_join_panics(g, current, nb) THEN Outcome(g, m, "panic")
                    ELSE Outcome([Eller_join(g, current, nb) EXCEPT !.current = nb],
                                 [m EXCEPT !.walls = @ \ {east_wall(current, m.config)},
                                           !.highlight_medium = @ \cup {nb}], "Ok")
               ELSE IF nb \notin DOMAIN g.coord_to_set
                    THEN Outcome([Eller_new_set(g, nb) EXCEPT !.current = nb], m, "Ok")
                    ELSE Outcome([g EXCEPT !.current = nb], m, "Ok")
       ELSE Outcome([g EXCEPT !.mode = "Vertical"], m, "Ok")

\* the index expressions of the vertical branch that panic on a missing key
Eller_vertical_panics(g, m) ==
    LET west == neighbour(g.current, "West", m.config)
    IN \/ g.current \notin DOMAIN g.coord_to_set
       \/ west # None /\ west[1] \notin DOMAIN g.coord_to_set
       \/ g.coord_to_set[g.current] \notin DOMAIN g.set_to_coords

Eller_tick_vertical(g, m, b) ==
    IF Eller_vertical_panics(g, m) THEN Outcome(g, m, "panic")
    ELSE
    LET current == g.current
        current_set == g.coord_to_set[current]
        west == neighbour(current, "West", m.config)
        south == neighbour(current, "South", m.config)
        last_in_set == ~(west # None /\ g.coord_to_set[west[1]] = current_set)
        connected == Eller_connected_vertically(g, current_set, m)
        force_join == last_in_set /\ ~connected
        joins == (force_join \/ b) /\ south # None
    IN IF joins /\ Eller_join_panics(g, current, south[1]) THEN Outcome(g, m, "panic")
       ELSE LET g1 == IF joins THEN Eller_join(g, current, south[1]) ELSE g
                m1 == IF joins
                      THEN [m EXCEPT !.walls = @ \ {south_wall(current, m.config)},
                                     !.explored = @ \cup {south[1]},
                                     !.highlight_medium = @ \cup {south[1]}]
                      ELSE m
            IN IF west # None THEN Outcome([g1 EXCEPT !.current = west[1]], m1, "Ok")
               ELSE LET g2 == [g1 EXCEPT !.mode = "Horizontal"]
                    IN IF south # None
                       THEN Outcome([(IF south[1] \notin DOMAIN g2.coord_to_set
                                      THEN Eller_new_set(g2, south[1]) ELSE g2)
                                        EXCEPT !.current = south[1]], m1, "Ok")
                       ELSE Outcome(g2, m1, "Ok")

Eller_tick(g, m, b) ==
    IF g.mode = "Horizontal"
    THEN Eller_tick_horizontal(g, Eller_mark(g, m), b)
    ELSE Eller_tick_vertical(g, Eller_mark(g, m), b)

\* ---- Hunt-and-Kill ----
\* HuntKill::new with the first hunt starting in the east column
HuntKill_new_EastColumn(m) ==
    [type |-> "HuntKill",
     current |-> Some(Coord(0, 0)),
     last_completed_column |-> m.config.maze_width - 1,
     last_completed_row |-> 0,
     mode |-> "Kill"]

HuntKill_new(m) ==
    [type |-> "HuntKill",
     current |-> Some(Coord(0, 0)),
     last_completed_column |-> 0,
     last_completed_row |-> 0,
     mode |-> "Kill"]

\* available_neighbour taking the first shuffled neighbour, explored or not
HuntKill_available_neighbour_Any(g, m, p) ==
    IF g.current = None THEN None
    ELSE find(shuffle(neighbours(g.current[1], m.config), p), LAMBDA n : TRUE)

HuntKill_available_neighbour(g, m, p) ==
    IF g.current = None THEN None
    ELSE find(shuffle(neighbours(g.current[1], m.config), p),
              LAMBDA n : n[1] \notin m.explored)

HuntKill_current_row(g, m) ==
    IF g.current = None THEN {}
    ELSE {Coord(x, g.current[1].y) : x \in 0..(m.config.maze_width - 1)}

\* visited_neighbour without the test that current is unexplored
HuntKill_visited_neighbour_AnyCurrent(g, m, p) ==
    IF g.current = None THEN None
    ELSE find(shuffle(neighbours(g.current[1], m.config), p),
              LAMBDA n : n[1] \in m.explored)

HuntKill_visited_neighbour(g, m, p) ==
    IF g.current = None THEN None
    ELSE IF g.current[1] \in m.explored THEN None
    ELSE find(shuffle(neighbours(g.current[1], m.config), p),
              LAMBDA n : n[1] \in m.explored)

HuntKill_tick_kill(g, m, p) ==
    IF g.current = None THEN Outcome(g, m, "Ok")
    ELSE LET current == g.current[1]
             m1 == [m EXCEPT !.highlight_bright = @ \cup {current},
                             !.highlight_medium = @ \cup {current},
                             !.explored = @ \cup {current}]
             an == HuntKill_available_neighbour(g, m1, p)
         IN IF an # None
            THEN LET lk == Maze_link(m1, current, an[1][1])
                 IN IF lk.result # "Ok" THEN Outcome(g, lk.maze, lk.result)
                    ELSE Outcome([g EXCEPT !.current = Some(an[1][1])], lk.maze, "Ok")
            ELSE Outcome([g EXCEPT !.mode = "Hunt",
                                   !.current = Some(Coord(g.last_completed_column,
                                                          g.last_completed_row))],
                         m1, "Ok")

HuntKill_tick_hunt(g, m, p) ==
    LET m0 == [m EXCEPT !.highlight_medium = {}]
    IN IF g.current = None THEN Outcome(g, m0, "Ok")
       ELSE LET current == g.current[1]
                m1 == [m0 EXCEPT !.highlight_medium = HuntKill_current_row(g, m),
                                 !.highlight_bright = @ \cup {current}]
                vn == HuntKill_visited_neighbour(g, m1, p)
            IN IF vn # None
               THEN LET m2 == [m1 EXCEPT !.highlight_medium = {},
                                         !.highlight_bright = @ \cup {vn[1][1]}]
                        lk == Maze_link(m2, current, vn[1][1])
                    IN IF lk.result # "Ok" THEN Outcome(g, lk.maze, lk.result)
                       ELSE Outcome([g EXCEPT !.last_completed_column = current.x,
                                              !.mode = "Kill"], lk.maze, "Ok")
               ELSE LET east == neighbour(current, "East", m.config)
                    IN IF east # None THEN Outcome([g EXCEPT !.current = east], m1, "Ok")
                       ELSE IF current.y < m.config.maze_height - 1
                       THEN Outcome([g EXCEPT
                                !.last_completed_row =
                                    IF HuntKill_current_row(g, m) \subseteq m1.explored
                                    THEN current.y + 1 ELSE @,
                                !.current = Some(Coord(0, current.y + 1))], m1, "Ok")
                       ELSE Outcome([g EXCEPT !.current = None], m1, "Ok")

HuntKill_is_done(g) == g.current = None

HuntKill_tick_KeepBright(g, m, p) ==
    IF g.mode = "Hunt" THEN HuntKill_tick_hunt(g, m, p) ELSE HuntKill_tick_kill(g, m, p)

HuntKill_tick(g, m, p) ==
    IF g.mode = "Hunt"
    THEN HuntKill_tick_hunt(g, [m EXCEPT !.highlight_bright = {}], p)
    ELSE HuntKill_tick_kill(g, [m EXCEPT !.highlight_bright = {}], p)

\* Generator::is_done by variant
Generator_is_done(g) ==
    CASE g.type = "DFS" -> GenDFS_is_done(g)
      [] g.type = "Kruskal" -> Kruskal_is_done(g)
      [] g.type = "Prim" -> Prim_is_done(g)
      [] g.type = "Eller" -> Eller_is_done(g)
      [] g.type = "HuntKill" -> HuntKill_is_done(g)
      [] OTHER -> FALSE

(***************************************************************************)
(* solver.rs.  A tick is an operator from the solver s and the maze m to   *)
(* the set of (solver, maze, Result) it can end in: the priority-queue     *)
(* solvers insert at the position slice::binary_search_by_key returns,     *)
(* which among equal keys is any of the matching positions.                *)
(***************************************************************************)
\* a tick that hands back the maze with its interior walls taken down
SOutcome_DropsWalls(s, m, res) ==
    [solver |-> s, maze |-> [m EXCEPT !.walls = {w \in @ : w.border}], result |-> res]

SOutcome(s, m, res) == [solver |-> s, maze |-> m, result |-> res]

\* a BFSNode that does not keep its parent
Node_NoPrevious(coord, previous) == [coord |-> coord, previous |-> None]

Node(coord, previous) == [coord |-> coord, previous |-> previous]

\* the coordinates on the chain of `previous` links from node n
RECURSIVE path_coords(_)
path_coords(n) ==
    {n.coord} \cup (IF n.previous = None THEN {} ELSE path_coords(n.previous[1]))

\* the number of `previous` links from node n back to the root
RECURSIVE path_len(_)
path_len(n) == IF n.previous = None THEN 0 ELSE 1 + path_len(n.previous[1])

\* highlight_path: highlight_medium is cleared and rebuilt from the chain
highlight_path(s, m) == [m EXCEPT !.highlight_medium = path_coords(s.current)]

queue_coords(queue) == {queue[i].coord : i \in 1..Len(queue)}

\* available_neighbours without the test that the cell is already queued
available_neighbours_IgnoreQueue(s, m) ==
    IF m.end = s.current.coord THEN <<>>
    ELSE SelectSeq(connected_neighbours(m, s.current.coord), LAMBDA n : n[1] \notin m.explored)

\* available_neighbours of BFS, Dijkstra, Greedy and AStar (the same code)
available_neighbours(s, m) ==
    IF m.end = s.current.coord THEN <<>>
    ELSE SelectSeq(connected_neighbours(m, s.current.coord),
                   LAMBDA n : n[1] \notin m.explored /\ n[1] \notin queue_coords(s.queue))

\* ---- DFS ----
SolverDFS_new(m) == [type |-> "DFS", current |-> m.start, goal |-> m.end, stack |-> <<>>]

SolverDFS_available_neighbour(s, m) ==
    IF m.end = s.current THEN None
    ELSE find(connected_neighbours(m, s.current),
              LAMBDA n : n[1] \notin m.explored /\ n[1] \notin Range(s.stack))

SolverDFS_is_done_EmptyStack(s) == s.stack = <<>>

SolverDFS_is_done(s) == s.goal = s.current

SolverDFS_tick(s, m) ==
    LET m1 == [m EXCEPT !.highlight_bright = {}]
        an == SolverDFS_available_neighbour(s, m1)
    IN IF an # None
       THEN {SOutcome([s EXCEPT !.stack = Append(@, s.current), !.current = an[1][1]],
                      [m1 EXCEPT !.explored = @ \cup {an[1][1]},
                                 !.highlight_medium = @ \cup {an[1][1]},
                                 !.highlight_bright = @ \cup {an[1][1]}], "Ok")}
       ELSE LET m2 == [m1 EXCEPT !.highlight_medium = @ \ {s.current}]
            IN IF s.stack = <<>> THEN {SOutcome(s, m2, "ImpossibleMaze")}
               ELSE {SOutcome([s EXCEPT !.current = s.stack[Len(s.stack)],
                                        !.stack = SubSeq(@, 1, Len(@) - 1)],
                              [m2 EXCEPT !.highlight_bright = @ \cup {s.stack[Len(s.stack)]}],
                              "Ok")}

\* ---- BFS ----
BFS_new(m) == [type |-> "BFS", current |-> Node(m.start, None), goal |-> m.end, queue |-> <<>>]

BFS_is_done(s) == s.goal = s.current.coord

BFS_tick(s, m) ==
    LET m1 == [m EXCEPT !.highlight_bright = {}]
        an == available_neighbours(s, m1)
        queue == s.queue \o [i \in 1..Len(an) |-> Node(an[i][1], Some(s.current))]
        m2 == [m1 EXCEPT !.highlight_dark = @ \cup {an[i][1] : i \in 1..Len(an)}]
    IN IF queue = <<>> THEN {SOutcome(s, m2, "ImpossibleMaze")}
       ELSE LET s1 == [s EXCEPT !.current = Head(queue), !.queue = Tail(queue)]
            IN {SOutcome(s1,
                         highlight_path(s1,
                            [m2 EXCEPT !.highlight_dark = @ \ {s1.current.coord},
                                       !.explored = @ \cup {s1.current.coord},
                                       !.highlight_bright = @ \cup {s1.current.coord}]),
                         "Ok")}

\* ---- the sorted queues of Dijkstra, Greedy and AStar ----
\* slice::binary_search_by_key on the keys `field` of a sorted queue, as the 0-based
\* positions it may return: Ok(pos) for any element whose key equals k, else
\* Err(pos) with pos the number of smaller keys
binary_search_by_key(queue, k, field) ==
    IF \E i \in 1..Len(queue) : queue[i][field] = k
    THEN {i - 1 : i \in {j \in 1..Len(queue) : queue[j][field] = k}}
    ELSE {Cardinality({j \in 1..Len(queue) : queue[j][field] < k})}

\* insert that ignores the position and appends
insert_AtEnd(queue, pos, n) == Append(queue, n)

\* Vec::insert(pos, n)
insert(queue, pos, n) == SubSeq(queue, 1, pos) \o <<n>> \o SubSeq(queue, pos + 1, Len(queue))

\* the queues that inserting the nodes one after the other can leave
RECURSIVE insert_all(_, _, _)
insert_all(queue, nodes, field) ==
    IF nodes = <<>> THEN {queue}
    ELSE UNION {insert_all(insert(queue, pos, Head(nodes)), Tail(nodes), field) :
                  pos \in binary_search_by_key(queue, Head(nodes)[field], field)}

\* pop_min that keeps the solver where it is when the queue is empty
pop_min_NeverFails(s, m, queue) ==
    IF queue = <<>> THEN SOutcome([s EXCEPT !.queue = queue], m, "Ok")
    ELSE LET s1 == [s EXCEPT !.current = Head(queue), !.queue = Tail(queue)]
         IN SOutcome(s1,
                     highlight_path(s1,
                        [m EXCEPT !.highlight_dark = @ \ {s1.current.coord},
                                  !.highlight_bright = @ \cup {s1.current.coord}]),
                     "Ok")

\* the part of the three ticks after the insertions: an empty queue is
\* ImpossibleMaze, else the head becomes current and the markers are republished
pop_min(s, m, queue) ==
    IF queue = <<>> THEN SOutcome([s EXCEPT !.queue = queue], m, "ImpossibleMaze")
    ELSE LET s1 == [s EXCEPT !.current = Head(queue), !.queue = Tail(queue)]
         IN SOutcome(s1,
                     highlight_path(s1,
                        [m EXCEPT !.highlight_dark = @ \ {s1.current.coord},
                                  !.highlight_bright = @ \cup {s1.current.coord}]),
                     "Ok")

\* ---- Dijkstra ----
DijkstraNode(coord, dist, previous) == [coord |-> coord, dist |-> dist, previous |-> previous]

Dijkstra_new(m) ==
    [type |-> "Dijkstra", current |-> DijkstraNode(m.start, 0, None), goal |-> m.end, queue |-> <<>>]

Dijkstra_is_done(s) == s.goal = s.current.coord

Dijkstra_tick(s, m) ==
    LET m1 == [m EXCEPT !.highlight_bright = {}, !.explored = @ \cup {s.current.coord}]
        an == available_neighbours(s, m1)
        nodes == [i \in 1..Len(an) |-> DijkstraNode(an[i][1], s.current.dist + 1, Some(s.current))]
        m2 == [m1 EXCEPT !.highlight_dark = @ \cup {an[i][1] : i \in 1..Len(an)}]
    IN {pop_min(s, m2, queue) : queue \in insert_all(s.queue, nodes, "dist")}

\* ---- Greedy ----
GreedyNode(coord, score, previous) == [coord |-> coord, score |-> score, previous |-> previous]

Greedy_new(m) ==
    [type |-> "Greedy", current |-> GreedyNode(m.start, 0, None), goal |-> m.end, queue |-> <<>>]

Greedy_heuristic(s, coord) == manhattan_dist(s.goal, coord)

Greedy_is_done(s) == s.goal = s.current.coord

Greedy_tick(s, m) ==
    LET m1 == [m EXCEPT !.highlight_bright = {}, !.explored = @ \cup {s.current.coord}]
        an == available_neighbours(s, m1)
        nodes == [i \in 1..Len(an) |->
                    GreedyNode(an[i][1], Greedy_heuristic(s, an[i][1]), Some(s.current))]
        m2 == [m1 EXCEPT !.highlight_dark = @ \cup {an[i][1] : i \in 1..Len(an)}]
    IN {pop_min(s, m2, queue) : queue \in insert_all(s.queue, nodes, "score")}

\* ---- AStar ----
AStarNode(coord, dist, score, previous) ==
    [coord |-> coord, dist |-> dist, score |-> score, previous |-> previous]

AStar_new(m) ==
    [type |-> "AStar", current |-> AStarNode(m.start, 0, 0, None), goal |-> m.end, queue |-> <<>>]

AStar_heuristic(s, coord) == manhattan_dist(s.goal, coord)

AStar_is_done(s) == s.goal = s.current.coord

AStar_tick(s, m) ==
    LET m1 == [m EXCEPT !.highlight_bright = {}, !.explored = @ \cup {s.current.coord}]
        an == available_neighbours(s, m1)
        nodes == [i \in 1..Len(an) |->
                    AStarNode(an[i][1], s.current.dist + 1,
                              s.current.dist + 1 + AStar_heuristic(s, an[i][1]),
                              Some(s.current))]
        m2 == [m1 EXCEPT !.highlight_dark = @ \cup {an[i][1] : i \in 1..Len(an)}]
    IN {pop_min(s, m2, queue) : queue \in insert_all(s.queue, nodes, "score")}

SolverTypes == {"DFS", "BFS", "Dijkstra", "Greedy", "AStar"}

\* SolverType::init
Solver_init(type, m) ==
    CASE type = "DFS" -> SolverDFS_new(m)
      [] type = "BFS" -> BFS_new(m)
      [] type = "Dijkstra" -> Dijkstra_new(m)
      [] type = "Greedy" -> Greedy_new(m)
      [] type = "AStar" -> AStar_new(m)

\* Solver::is_done by variant (every variant compares current with the goal)
Solver_is_done(s) ==
    CASE s.type = "DFS" -> SolverDFS_is_done(s)
      [] s.type = "BFS" -> BFS_is_done(s)
      [] s.type = "Dijkstra" -> Dijkstra_is_done(s)
      [] s.type = "Greedy" -> Greedy_is_done(s)
      [] s.type = "AStar" -> AStar_is_done(s)
      [] OTHER -> FALSE

\* Solver::tick by variant
Solver_tick(s, m) ==
    CASE s.type = "DFS" -> SolverDFS_tick(s, m)
      [] s.type = "BFS" -> BFS_tick(s, m)
      [] s.type = "Dijkstra" -> Dijkstra_tick(s, m)
      [] s.type = "Greedy" -> Greedy_tick(s, m)
      [] s.type = "AStar" -> AStar_tick(s, m)

(***************************************************************************)
(* The run: a Maze is built, a generator is ticked, and once it reports    *)
(* is_done the markers are cleared and a solver is ticked.  tick() stays   *)
(* callable after is_done; the run halts on the first Err.                 *)
(***************************************************************************)

\* Config: the grids of at most n cells (Maze::new needs two cells to find an
\* end that differs from start) and the cell sizes 1..MaxCellSize
Configs(n) ==
    {c \in [maze_width : 1..n, maze_height : 1..n, cell_size : 1..MaxCellSize] :
        c.maze_width * c.maze_height \in 2..n}

InteriorWalls(m) == {w \in m.walls : removable(w)}

\* the fresh mazes Maze::new can return on grids of at most n cells
Mazes(n) ==
    UNION {{Maze_new(c, st, en) : <<st, en>> \in
              {t \in Coords(c) \X Coords(c) : t[1] # t[2]}} : c \in Configs(n)}

\* GeneratorType::init: the generators that can be built for the maze m
Generator_init(m) ==
    {GenDFS_new(m), Prim_new(m), Eller_new(m), HuntKill_new(m)}
    \cup (IF Cardinality(InteriorWalls(m)) <= MaxKruskalWalls
          THEN LET orders == HashIter(InteriorWalls(m))
                   perms == Perms(Cardinality(InteriorWalls(m)))
               IN {Kruskal_new(m, order, p) : order \in orders, p \in perms}
          ELSE {})

NoSolver == [type |-> "None"]

NoRun == <<>>

NoCall == <<>>

Init ==
    /\ maze \in Mazes(MaxCells)
    /\ gen \in Generator_init(maze)
    /\ solver = NoSolver
    /\ phase = "generate"
    /\ result = "Ok"
    /\ post = FALSE
    /\ ticks = 0
    /\ maze2 = NoRun
    /\ gen2 = NoRun
    /\ call = NoCall
    /\ ret = NoCall

GenApply(out) ==
    /\ gen' = out.gen
    /\ maze' = out.maze
    /\ result' = out.result
    /\ post' = (post \/ Generator_is_done(gen))
    /\ ticks' = IF post \/ Generator_is_done(gen) THEN ticks ELSE ticks + 1
    /\ UNCHANGED <<solver, phase, maze2, gen2, call, ret>>

Ticking(type) == phase = "generate" /\ result = "Ok" /\ gen.type = type

\* the permutations Rng::shuffle can apply to the neighbours of current
NeighbourPerms(g, m) ==
    IF g.current = None THEN {<<>>} ELSE Perms(Len(neighbours(g.current[1], m.config)))

GenDFSTick == Ticking("DFS") /\ \E p \in NeighbourPerms(gen, maze) : GenApply(GenDFS_tick(gen, maze, p))

KruskalTick == Ticking("Kruskal") /\ GenApply(Kruskal_tick(gen, maze))

PrimTick == Ticking("Prim") /\ \E r \in Prim_draws(gen, maze) : GenApply(Prim_tick(gen, maze, r))

EllerTick == Ticking("Eller") /\ \E b \in BOOLEAN : GenApply(Eller_tick(gen, maze, b))

HuntKillTick ==
    Ticking("HuntKill") /\ \E p \in NeighbourPerms(gen, maze) : GenApply(HuntKill_tick(gen, maze, p))

\* the driver's switch from generating to solving: the marker sets are emptied
ResetMarkers(m) ==
    [m EXCEPT !.explored = {}, !.highlight_bright = {}, !.highlight_medium = {},
              !.highlight_dark = {}]

StartSolve ==
    /\ phase = "generate"
    /\ result = "Ok"
    /\ Generator_is_done(gen)
    /\ \E type \in SolverTypes :
          /\ maze' = ResetMarkers(maze)
          /\ solver' = Solver_init(type, ResetMarkers(maze))
    /\ phase' = "solve"
    /\ post' = FALSE
    /\ ticks' = 0
    /\ UNCHANGED <<gen, result, maze2, gen2, call, ret>>

SolveTick ==
    /\ phase = "solve"
    /\ result = "Ok"
    /\ \E out \in Solver_tick(solver, maze) :
          /\ solver' = out.solver
          /\ maze' = out.maze
          /\ result' = out.result
    /\ post' = (post \/ Solver_is_done(solver))
    /\ ticks' = IF post \/ Solver_is_done(solver) THEN ticks ELSE ticks + 1
    /\ UNCHANGED <<gen, phase, maze2, gen2, call, ret>>

Next ==
    \/ GenDFSTick
    \/ KruskalTick
    \/ PrimTick
    \/ EllerTick
    \/ HuntKillTick
    \/ StartSolve
    \/ SolveTick

Spec == Init /\ [][Next]_vars

(***************************************************************************)
(* The graph of the removed walls.                                         *)
(***************************************************************************)
\* the walls a fresh maze of the same configuration has
AllWalls(m) == UNION {walls(c, m.config) : c \in Coords(m.config)}

\* the walls removed so far
Removed(m) == AllWalls(m) \ m.walls

\* a and b are grid neighbours and no wall stands between them
Joined(m, a, b) ==
    \E d \in Range(Directions) :
        /\ neighbour(a, d, m.config) = Some(b)
        /\ wall(a, d, m.config) \notin m.walls

Adjacent(m, a) == {b \in Coords(m.config) : Joined(m, a, b)}

\* the cells reachable from the cells S through removed walls
RECURSIVE Reach(_, _)
Reach(m, S) ==
    LET N == S \cup UNION {Adjacent(m, a) : a \in S}
    IN IF N = S THEN S ELSE Reach(m, N)

\* the pairs of cells joined by a removed wall
Edges(m) == {{a, b} : <<a, b>> \in {t \in Coords(m.config) \X Coords(m.config) : Joined(m, t[1], t[2])}}

\* the number of connected components among the cells S
RECURSIVE Components(_, _)
Components(m, S) ==
    IF S = {} THEN 0
    ELSE 1 + Components(m, S \ Reach(m, {CHOOSE a \in S : TRUE}))

Connected(m) == Reach(m, {Coord(0, 0)}) = Coords(m.config)

\* no cycle among the removed walls
Acyclic(m) ==
    Cardinality(Edges(m)) = Cardinality(Coords(m.config)) - Components(m, Coords(m.config))

NumCells(m) == m.config.maze_width * m.config.maze_height

SpanningTree(m) ==
    /\ Cardinality(Removed(m)) = NumCells(m) - 1
    /\ Connected(m)
    /\ Acyclic(m)

\* the least number of removed walls to cross from a cell of S to b, -1 if none
RECURSIVE Dist(_, _, _, _)
Dist(m, S, b, d) ==
    IF b \in S THEN d
    ELSE LET N == S \cup UNION {Adjacent(m, a) : a \in S}
         IN IF N = S THEN -1 ELSE Dist(m, N, b, d + 1)

MinEdges(m) == Dist(m, {m.start}, m.end, 0)

Generating == phase = "generate"

Solving == phase = "solve"

GenDone == Generating /\ result = "Ok" /\ Generator_is_done(gen)

(***************************************************************************)
(* The claims.                                                             *)
(***************************************************************************)

\* C1: when a generator ticked from a fresh maze reports is_done, exactly
\* W*H-1 interior walls are removed and the removed walls form a spanning tree
\* (connected and acyclic over all W*H cells).
C1_SpanningTreeWhenDone == GenDone => SpanningTree(maze)

\* C2: on a maze a generator has completed, no solver tick made before
\* is_done returns an error, and when BFS, Dijkstra or AStar is done the
\* parent chain of current has the minimum number of edges between start and end.
C2_SolversSucceed ==
    (Solving /\ ~post) =>
        /\ result = "Ok"
        /\ (Solver_is_done(solver) /\ solver.type \in {"BFS", "Dijkstra", "AStar"}) =>
              path_len(solver.current) = MinEdges(maze)

\* C4: a generator tick made when is_done is true returns Ok, leaves
\* maze.walls, maze.explored and the generator unchanged, and is_done stays true.
C4_GeneratorTickAfterDoneIsNoOp ==
    [][(GenDone /\ phase' = "generate") =>
          /\ result' = "Ok"
          /\ maze'.walls = maze.walls
          /\ maze'.explored = maze.explored
          /\ gen' = gen
          /\ Generator_is_done(gen')]_vars

\* C5: a solver tick made when is_done is true returns Ok, leaves current,
\* the stack or queue and maze.explored unchanged, and is_done stays true.
C5_SolverTickAfterDoneIsNoOp ==
    [][(Solving /\ result = "Ok" /\ Solver_is_done(solver)) =>
          /\ result' = "Ok"
          /\ solver' = solver
          /\ maze'.explored = maze.explored
          /\ Solver_is_done(solver')]_vars

\* C6: every border wall of the initial wall set is in maze.walls in every
\* reachable state: no generator tick removes a border wall.
C6_BorderWallsStand == \A w \in AllWalls(maze) : w.border => w \in maze.walls

\* a generator has run to completion on a grid of at least four cells
C6_Witness ==
    /\ GenDone
    /\ NumCells(maze) >= 4
    /\ Cardinality(Removed(maze)) = NumCells(maze) - 1

\* C8: every coordinate a solver tick adds to maze.explored and every
\* coordinate that becomes current is joined to the coordinate it was discovered
\* from (its parent, for DFS the previous current) by a wall absent from
\* maze.walls; the root of the search has no parent.
C8_NoStandingWallCrossed ==
    [][(Solving /\ phase' = "solve" /\ result' = "Ok") =>
          IF solver.type = "DFS"
          THEN /\ solver'.current # solver.current => Joined(maze, solver.current, solver'.current)
               /\ maze'.explored \ maze.explored \subseteq {solver'.current}
          ELSE /\ solver'.current.previous # None =>
                    Joined(maze, solver'.current.previous[1].coord, solver'.current.coord)
               /\ \A c \in maze'.explored \ maze.explored :
                    \E n \in {solver.current, solver'.current} :
                       /\ n.coord = c
                       /\ n.previous # None => Joined(maze, n.previous[1].coord, c)]_vars

\* a solver has reached the goal after at least three ticks
C8_Witness == Solving /\ ~post /\ Solver_is_done(solver) /\ ticks >= 3

\* C9: every generator tick leaves a wall set that is a subset of the one
\* before it and lacks at most one of its walls.
C9_WallsOnlyShrinkByOne ==
    [][(Generating /\ phase' = "generate") =>
          /\ maze'.walls \subseteq maze.walls
          /\ Cardinality(maze.walls \ maze'.walls) <= 1]_vars

\* a generator has removed at least three walls
C9_Witness == Generating /\ Cardinality(Removed(maze)) >= 3

\* the 2x2 scenario: start (0,0), end (1,1), recursive backtracker
Scenario2x2 ==
    /\ maze.config.maze_width = 2
    /\ maze.config.maze_height = 2
    /\ maze.start = Coord(0, 0)
    /\ maze.end = Coord(1, 1)
    /\ gen.type = "DFS"

\* C10: on the 2x2 grid with start (0,0) and end (1,1) the recursive
\* backtracker, when done, has removed exactly 3 walls forming a tree over the
\* 4 cells, and BFS then reaches (1,1) within 4 ticks without error, with a
\* parent chain of exactly 2 edges.
C10_Scenario2x2 ==
    Scenario2x2 =>
        /\ GenDone => (Cardinality(Removed(maze)) = 3 /\ Connected(maze) /\ Acyclic(maze))
        /\ (Solving /\ solver.type = "BFS" /\ ~post) =>
              /\ result = "Ok"
              /\ ~Solver_is_done(solver) => ticks < 4
              /\ Solver_is_done(solver) =>
                    (solver.current.coord = Coord(1, 1) /\ path_len(solver.current) = 2)

\* BFS has reached (1,1) in the 2x2 scenario
C10_Witness ==
    Scenario2x2 /\ Solving /\ solver.type = "BFS" /\ ~post /\ Solver_is_done(solver)

(***************************************************************************)
(* A maze whose walls are removed by hand, with Maze::link, before a       *)
(* solver is run on it: the wall configurations no generator produces.     *)
(***************************************************************************)
NoGenerator == [type |-> "None"]

\* the coordinates link is called with: the grid and the ring around it
LinkCoords(m) ==
    {Coord(x, y) : x \in (-1)..m.config.maze_width, y \in (-1)..m.config.maze_height}

LinkInit ==
    /\ maze \in Mazes(MaxLinkCells)
    /\ gen = NoGenerator
    /\ solver = NoSolver
    /\ phase = "link"
    /\ result = "Ok"
    /\ post = FALSE
    /\ ticks = 0
    /\ maze2 = NoRun
    /\ gen2 = NoRun
    /\ call = NoCall
    /\ ret = NoCall

Link ==
    /\ phase = "link"
    /\ \E c1, c2 \in LinkCoords(maze) :
          /\ maze' = Maze_link(maze, c1, c2).maze
          /\ result' = Maze_link(maze, c1, c2).result
    /\ UNCHANGED <<gen, solver, phase, post, ticks, maze2, gen2, call, ret>>

\* a call of link from a cell of the grid whose arguments are kept: the last
\* one made on the maze
LinkCall ==
    /\ phase = "link"
    /\ \E c1 \in Coords(maze.config) : \E c2 \in LinkCoords(maze) :
          /\ maze' = Maze_link(maze, c1, c2).maze
          /\ result' = Maze_link(maze, c1, c2).result
          /\ call' = [op |-> "link", c1 |-> c1, c2 |-> c2]
    /\ phase' = "linked"
    /\ UNCHANGED <<gen, solver, post, ticks, maze2, gen2, ret>>

LinkStartSolve ==
    /\ phase = "link"
    /\ \E type \in SolverTypes : solver' = Solver_init(type, maze)
    /\ phase' = "solve"
    /\ result' = "Ok"
    /\ UNCHANGED <<maze, gen, post, ticks, maze2, gen2, call, ret>>

LinkNext ==
    \/ Link
    \/ LinkCall
    \/ LinkStartSolve
    \/ SolveTick

SpecLink == LinkInit /\ [][LinkNext]_vars

\* C7: when the end cell cannot be reached from the start cell through
\* removed walls, is_done is never true, a tick returns nothing but Ok or
\* ImpossibleMaze, and the solver cannot be ticked 2*W*H times without
\* returning Err(ImpossibleMaze).
C7_UnreachableGoalIsImpossibleMaze ==
    (Solving /\ MinEdges(maze) = -1) =>
        /\ ~Solver_is_done(solver)
        /\ result \in {"Ok", "ImpossibleMaze"}
        /\ result = "Ok" => (ticks < 2 * NumCells(maze) /\ Solver_tick(solver, maze) # {})

\* a solver has returned ImpossibleMaze after exploring part of a maze whose end
\* is walled off
C7_Witness ==
    /\ Solving
    /\ MinEdges(maze) = -1
    /\ result = "ImpossibleMaze"
    /\ Removed(maze) # {}
    /\ ticks >= 3

(***************************************************************************)
(* Two runs of one generator on the same fresh maze with the same seed:    *)
(* maze, gen are the first run and maze2, gen2 the second.  Both runs get  *)
(* the same draws from the random source; the order in which a HashSet is  *)
(* iterated is not drawn from it (std's RandomState keys every set anew),  *)
(* so each run has its own.  The runs are ticked together for as long as   *)
(* their mazes agree.                                                      *)
(***************************************************************************)
DetInit ==
    /\ maze \in Mazes(MaxDetCells)
    /\ maze2 = maze
    /\ \/ gen \in {GenDFS_new(maze), Prim_new(maze), Eller_new(maze), HuntKill_new(maze)}
          /\ gen2 = gen
       \/ /\ Cardinality(InteriorWalls(maze)) <= MaxDetWalls
          /\ \E p \in Perms(Cardinality(InteriorWalls(maze))) :
                /\ gen \in {Kruskal_new(maze, order, p) : order \in HashIter(InteriorWalls(maze))}
                /\ gen2 \in {Kruskal_new(maze, order, p) : order \in HashIter(InteriorWalls(maze))}
    /\ solver = NoSolver
    /\ phase = "det"
    /\ result = "Ok"
    /\ post = FALSE
    /\ ticks = 0
    /\ call = NoCall
    /\ ret = NoCall

DetApply(out, out2) ==
    /\ gen' = out.gen
    /\ maze' = out.maze
    /\ gen2' = out2.gen
    /\ maze2' = out2.maze
    /\ result' = IF out.result = "Ok" THEN out2.result ELSE out.result
    /\ UNCHANGED <<solver, phase, post, ticks, call, ret>>

DetTicking(type) ==
    /\ phase = "det"
    /\ result = "Ok"
    /\ gen.type = type
    /\ maze = maze2
    /\ ~Generator_is_done(gen)

DetGenDFSTick ==
    /\ DetTicking("DFS")
    /\ \E p \in NeighbourPerms(gen, maze) :
          DetApply(GenDFS_tick(gen, maze, p), GenDFS_tick(gen2, maze2, p))

DetKruskalTick ==
    /\ DetTicking("Kruskal")
    /\ DetApply(Kruskal_tick(gen, maze), Kruskal_tick(gen2, maze2))

\* random.choose draws the same index in both runs when it chooses among
\* equally many elements
DetPrimTick ==
    /\ DetTicking("Prim")
    /\ \E r \in Prim_draws(gen, maze), r2 \in Prim_draws(gen2, maze2) :
          /\ r.i = r2.i
          /\ r.j = r2.j
          /\ DetApply(Prim_tick(gen, maze, r), Prim_tick(gen2, maze2, r2))

DetEllerTick ==
    /\ DetTicking("Eller")
    /\ \E b \in BOOLEAN : DetApply(Eller_tick(gen, maze, b), Eller_tick(gen2, maze2, b))

DetHuntKillTick ==
    /\ DetTicking("HuntKill")
    /\ \E p \in NeighbourPerms(gen, maze) :
          DetApply(HuntKill_tick(gen, maze, p), HuntKill_tick(gen2, maze2, p))

DetNext ==
    \/ DetGenDFSTick
    \/ DetKruskalTick
    \/ DetPrimTick
    \/ DetEllerTick
    \/ DetHuntKillTick

SpecDet == DetInit /\ [][DetNext]_vars

\* C3: two runs of a generator with the same seed on the same maze remove the
\* same walls on the same tick, whatever order their hash sets are iterated in.
C3_SameSeedSameWalls ==
    [][phase' = "det" => (maze.walls \ maze'.walls) = (maze2.walls \ maze2'.walls)]_vars

(***************************************************************************)
(* The functions of Coord called on their own: a configuration, a cell of  *)
(* its grid and a direction are chosen, and the function applied to them.  *)
(***************************************************************************)
CoordConfigs ==
    [maze_width : 1..MaxCoordSide, maze_height : 1..MaxCoordSide, cell_size : 1..MaxCoordCellSize]

Call(op, config, c, d) == [op |-> op, config |-> config, c |-> c, d |-> d]

CoordInit ==
    /\ maze = NoRun
    /\ gen = NoGenerator
    /\ solver = NoSolver
    /\ phase = "call"
    /\ result = "Ok"
    /\ post = FALSE
    /\ ticks = 0
    /\ maze2 = NoRun
    /\ gen2 = NoRun
    /\ call = NoCall
    /\ ret = NoCall

CallWall ==
    /\ phase = "call"
    /\ call = NoCall
    /\ \E config \in CoordConfigs : \E c \in Coords(config) : \E d \in Range(Directions) :
          /\ call' = Call("wall", config, c, d)
          /\ ret' = wall(c, d, config)
    /\ UNCHANGED <<maze, gen, solver, phase, result, post, ticks, maze2, gen2>>

CallNeighbour ==
    /\ phase = "call"
    /\ call = NoCall
    /\ \E config \in CoordConfigs : \E c \in Coords(config) : \E d \in Range(Directions) :
          /\ call' = Call("neighbour", config, c, d)
          /\ ret' = neighbour(c, d, config)
    /\ UNCHANGED <<maze, gen, solver, phase, result, post, ticks, maze2, gen2>>

CallNeighbours ==
    /\ phase = "call"
    /\ call = NoCall
    /\ \E config \in CoordConfigs : \E c \in Coords(config) :
          /\ call' = Call("neighbours", config, c, "North")
          /\ ret' = neighbours(c, config)
    /\ UNCHANGED <<maze, gen, solver, phase, result, post, ticks, maze2, gen2>>

\* Maze::divided_coords on the wall of cell c in direction d
CallDividedCoords ==
    /\ phase = "call"
    /\ call = NoCall
    /\ \E config \in CoordConfigs : \E c \in Coords(config) : \E d \in Range(Directions) :
          /\ call' = Call("divided_coords", config, c, d)
          /\ ret' = divided_coords([config |-> config], wall(c, d, config))
    /\ UNCHANGED <<maze, gen, solver, phase, result, post, ticks, maze2, gen2>>

CoordNext ==
    \/ CallWall
    \/ CallNeighbour
    \/ CallNeighbours
    \/ CallDividedCoords

SpecCoord == CoordInit /\ [][CoordNext]_vars

\* the coordinate one step from c in direction d, by its offsets
Step(c, d) ==
    LET dx == CASE d = "East" -> 1 [] d = "West" -> -1 [] OTHER -> 0
        dy == CASE d = "South" -> 1 [] d = "North" -> -1 [] OTHER -> 0
    IN [x |-> c.x + dx, y |-> c.y + dy]

InGrid(c, config) ==
    c.x >= 0 /\ c.x < config.maze_width /\ c.y >= 0 /\ c.y < config.maze_height

Opposite(d) ==
    CASE d = "North" -> "South" [] d = "South" -> "North"
      [] d = "East" -> "West" [] d = "West" -> "East"

\* the pairs (cell, direction) of a grid whose step stays in the grid
Sides(config) ==
    {sd \in Coords(config) \X Range(Directions) : InGrid(Step(sd[1], sd[2]), config)}

\* C11: the wall of a cell towards an in-bounds neighbour equals the wall of
\* that neighbour towards the cell (centre, orientation, border flag, size),
\* and it differs from the wall between any other pair of adjacent cells.
C11_SharedWallIdentity ==
    (call # NoCall /\ call.op = "wall" /\ InGrid(Step(call.c, call.d), call.config)) =>
        /\ ret = wall(Step(call.c, call.d), Opposite(call.d), call.config)
        /\ \A sd \in Sides(call.config) :
              {sd[1], Step(sd[1], sd[2])} # {call.c, Step(call.c, call.d)} =>
                  wall(sd[1], sd[2], call.config) # ret

\* the East wall of a cell with an eastern neighbour was computed for an odd
\* cell size above one on a grid with several columns and rows
C11_Witness ==
    /\ call # NoCall
    /\ call.op = "wall"
    /\ call.d = "East"
    /\ call.config.cell_size = 3
    /\ call.config.maze_width = 3
    /\ call.config.maze_height = 3
    /\ InGrid(Step(call.c, call.d), call.config)

\* C12: neighbour(c, d) is None exactly when the cell one step away in
\* direction d lies outside the grid and is that cell otherwise; neighbours(c)
\* lists the in-bounds ones, each once, in the order North, East, South, West.
C12_NeighboursInBounds ==
    /\ (call # NoCall /\ call.op = "neighbour") =>
          ret = IF InGrid(Step(call.c, call.d), call.config)
                THEN Some(Step(call.c, call.d))
                ELSE None
    /\ (call # NoCall /\ call.op = "neighbours") =>
          ret = SelectSeq(<<<<Step(call.c, "North"), "North">>, <<Step(call.c, "East"), "East">>,
                            <<Step(call.c, "South"), "South">>, <<Step(call.c, "West"), "West">>>>,
                          LAMBDA n : InGrid(n[1], call.config))

\* neighbours was called on a cell with four in-bounds neighbours
C12_Witness == call # NoCall /\ call.op = "neighbours" /\ Len(ret) = 4

(***************************************************************************)
(* Maze::new with its choice of start and end: the configuration may fix   *)
(* either, Coord::random draws the other, and end is drawn again while it  *)
(* equals start.  Then the run goes on as in Spec.                         *)
(***************************************************************************)
\* an `if start == end` in place of the `while`: end is drawn again once
redraw_end_Once(start, end, draws) ==
    IF start # end THEN Some(end)
    ELSE IF draws = <<>> THEN None
    ELSE Some(Head(draws))

\* the loop `while start == end`: the end it leaves, None if the draws given
\* do not end it
RECURSIVE redraw_end(_, _, _)
redraw_end(start, end, draws) ==
    IF start # end THEN Some(end)
    ELSE IF draws = <<>> THEN None
    ELSE redraw_end(start, Head(draws), Tail(draws))

\* Maze::new with config.start(), config.end() and the coordinates that
\* Coord::random returns, in the order they are drawn
Maze_new_random(config, cstart, cend, draws) ==
    LET start == IF cstart # None THEN cstart[1] ELSE Head(draws)
        d1 == IF cstart # None THEN draws ELSE Tail(draws)
        end0 == IF cend # None THEN cend[1] ELSE Head(d1)
        d2 == IF cend # None THEN d1 ELSE Tail(d1)
        end == redraw_end(start, end0, d2)
    IN IF end = None THEN None ELSE Some(Maze_new(config, start, end[1]))

NewConfigs ==
    {c \in [maze_width : 1..MaxNewCells, maze_height : 1..MaxNewCells, cell_size : 1..MaxCellSize] :
        c.maze_width * c.maze_height <= MaxNewCells}

NewInit ==
    /\ maze = NoRun
    /\ gen = NoGenerator
    /\ solver = NoSolver
    /\ phase = "new"
    /\ result = "Ok"
    /\ post = FALSE
    /\ ticks = 0
    /\ maze2 = NoRun
    /\ gen2 = NoRun
    /\ call = NoCall
    /\ ret = NoCall

MazeNew ==
    /\ phase = "new"
    /\ \E config \in NewConfigs :
       \E cstart, cend \in {None} \cup {Some(c) : c \in Coords(config)} :
       \E draws \in [1..MaxDraws -> Coords(config)] :
          LET new == Maze_new_random(config, cstart, cend, draws)
          IN /\ new # None
             /\ maze' = new[1]
             /\ call' = [op |-> "Maze::new", start |-> cstart, end |-> cend]
    /\ phase' = "init"
    /\ UNCHANGED <<gen, solver, result, post, ticks, maze2, gen2, ret>>

GeneratorInit ==
    /\ phase = "init"
    /\ gen' \in Generator_init(maze)
    /\ phase' = "generate"
    /\ UNCHANGED <<maze, solver, result, post, ticks, maze2, gen2, call, ret>>

NewNext ==
    \/ MazeNew
    \/ GeneratorInit
    \/ Next

SpecNew == NewInit /\ [][NewNext]_vars

\* C13: a Maze that Maze::new has returned has start # end, however start and
\* end were chosen, and no generator or solver tick changes start or end.
C13_StartEndDistinctAndFixed ==
    /\ [](maze # NoRun => maze.start # maze.end)
    /\ [][maze # NoRun => (maze'.start = maze.start /\ maze'.end = maze.end)]_vars

\* a solver has reached the goal of a maze whose configuration fixed start and
\* end to the same coordinate
C13_Witness ==
    /\ call # NoCall
    /\ call.op = "Maze::new"
    /\ call.start # None
    /\ call.start = call.end
    /\ phase = "solve"
    /\ Solver_is_done(solver)

\* c1 and c2 are cells of the grid one step apart
GridAdjacent(c1, c2, config) ==
    /\ InGrid(c1, config)
    /\ InGrid(c2, config)
    /\ abs(c1.x - c2.x) + abs(c1.y - c2.y) = 1

AStarConfigs ==
    {c \in [maze_width : 1..MaxAStarSide, maze_height : 1..MaxAStarSide, cell_size : {MaxCellSize}] :
        c.maze_width * c.maze_height >= 2}

\* the configuration fixes start to the first cell and end to the last
AStarInit ==
    /\ maze \in {Maze_new(c, Coord(0, 0), Coord(c.maze_width - 1, c.maze_height - 1)) :
                    c \in AStarConfigs}
    /\ gen = NoGenerator
    /\ solver = NoSolver
    /\ phase = "link"
    /\ result = "Ok"
    /\ post = FALSE
    /\ ticks = 0
    /\ maze2 = NoRun
    /\ gen2 = NoRun
    /\ call = NoCall
    /\ ret = NoCall

\* link of a cell and one of its neighbours
LinkNeighbours ==
    /\ phase = "link"
    /\ \E c1 \in Coords(maze.config) : \E n \in Range(neighbours(c1, maze.config)) :
          /\ maze' = Maze_link(maze, c1, n[1]).maze
          /\ result' = Maze_link(maze, c1, n[1]).result
    /\ UNCHANGED <<gen, solver, phase, post, ticks, maze2, gen2, call, ret>>

AStarStart ==
    /\ phase = "link"
    /\ solver' = Solver_init("AStar", maze)
    /\ phase' = "solve"
    /\ result' = "Ok"
    /\ UNCHANGED <<maze, gen, post, ticks, maze2, gen2, call, ret>>

AStarNext ==
    \/ LinkNeighbours
    \/ AStarStart
    \/ SolveTick

SpecAStar == AStarInit /\ [][AStarNext]_vars

\* C15: on every wall configuration in which end can be reached from start,
\* loops among the removed walls included, no tick of A-star returns an error
\* before is_done, and when is_done the parent chain of current has the least
\* number of edges that lead from start to end.
C15_AStarShortestPath ==
    (Solving /\ solver.type = "AStar" /\ ~post /\ MinEdges(maze) >= 0) =>
        /\ result = "Ok"
        /\ Solver_is_done(solver) => path_len(solver.current) = MinEdges(maze)


\* ---------------------------------------------------------------------------
\* Solver position and highlight
\* ---------------------------------------------------------------------------

\* the coordinate a solver stands on
CurrentCoord(s) == IF s.type = "DFS" THEN s.current ELSE s.current.coord

\* C16: for every solver is_done() is true exactly when the solver's current
\* coordinate equals maze.end, and after every tick that returns Ok
\* maze.highlight_bright is exactly {current}.
C16_DoneIffAtEndAndBrightIsCurrent ==
    /\ [](Solving => (Solver_is_done(solver) <=> CurrentCoord(solver) = maze.end))
    /\ [][(Solving /\ Solving' /\ result' = "Ok")
              => maze'.highlight_bright = {CurrentCoord(solver')}]_vars

C16_Witness ==
    /\ Solving
    /\ ticks >= 2
    /\ result = "Ok"
    /\ Solver_is_done(solver)
    /\ CurrentCoord(solver) = maze.end
    /\ maze.highlight_bright = {maze.end}


\* ---------------------------------------------------------------------------
\* Generator highlight
\* ---------------------------------------------------------------------------

\* the coordinates the tick of generator g on maze m can insert into
\* highlight_bright; g2 is the generator after the tick
TickInserts(g, m, g2) ==
    CASE g.type = "DFS" -> Range(g.current)
      [] g.type = "Kruskal" ->
            IF Kruskal_is_done(g) THEN {}
            ELSE Range(divided_coords(m, g.walls[Len(g.walls)]))
      [] g.type = "Prim" -> g.cells \ g2.cells
      [] g.type = "Eller" -> {g.current}
      [] g.type = "HuntKill" ->
            IF g.current = None THEN {}
            ELSE {g.current[1]} \cup
                 (IF g.mode = "Hunt"
                  THEN {n[1] : n \in {nn \in Range(neighbours(g.current[1], m.config)) :
                                         nn[1] \in m.explored}}
                  ELSE {})

\* C17: every generator tick (in every mode, also once done) empties
\* maze.highlight_bright first: after a tick highlight_bright holds only
\* coordinates the tick itself inserted, none left over from an earlier tick.
C17_BrightHoldsOnlyThisTick ==
    [][(Generating /\ Generating')
          => maze'.highlight_bright \subseteq TickInserts(gen, maze, gen')]_vars

\* a tick after which a coordinate highlighted by the tick before is gone
C17_Witness ==
    /\ Generating
    /\ ticks >= 2
    /\ result = "Ok"
    /\ maze.highlight_bright # {}
    /\ maze.explored \ maze.highlight_bright # {}


\* ---------------------------------------------------------------------------
\* Kruskal step
\* ---------------------------------------------------------------------------

\* the cells of the grid that have w as one of their four walls
DividedCells(w, config) == {c \in Coords(config) : w \in walls(c, config)}

\* C18: a Kruskal tick removes the popped wall from maze.walls exactly when the
\* two cells it divides were in different sets before the tick, and then the
\* two sets become one; when the cells were in the same set maze.walls and the
\* partition stay as they were.  is_done() is true exactly when the pending
\* wall list is empty or at most one set remains.
C18_KruskalJoinsOrKeeps ==
    /\ []((Generating /\ gen.type = "Kruskal")
            => (Generator_is_done(gen) <=> (gen.walls = <<>> \/ Cardinality(gen.sets) <= 1)))
    /\ [][(Generating /\ Generating' /\ gen.type = "Kruskal" /\ ~Generator_is_done(gen))
            => LET w == gen.walls[Len(gen.walls)]
                   between == {s \in gen.sets : s \cap DividedCells(w, maze.config) # {}}
               IN IF Cardinality(between) = 2
                  THEN /\ w \notin maze'.walls
                       /\ maze'.walls = maze.walls \ {w}
                       /\ gen'.sets = (gen.sets \ between) \cup {UNION between}
                  ELSE /\ w \in maze'.walls
                       /\ maze'.walls = maze.walls
                       /\ gen'.sets = gen.sets]_vars


\* ---------------------------------------------------------------------------
\* Prim step
\* ---------------------------------------------------------------------------

\* C19: every Prim tick on a non-empty frontier takes the chosen element off
\* the frontier, marks exactly one previously unexplored cell explored and
\* removes a wall only between that cell and a cell explored before; is_done()
\* is true exactly when the frontier is empty, and the frontier never holds an
\* explored cell.
C19_PrimGrowsByOneCell ==
    /\ []((Generating /\ gen.type = "Prim")
            => /\ Generator_is_done(gen) <=> gen.cells = {}
               /\ gen.cells \cap maze.explored = {})
    /\ [][(Generating /\ Generating' /\ gen.type = "Prim" /\ gen.cells # {})
            => \E cell \in gen.cells :
                  /\ cell \notin gen'.cells
                  /\ cell \notin maze.explored
                  /\ maze'.explored = maze.explored \cup {cell}
                  /\ maze'.walls \subseteq maze.walls
                  /\ Cardinality(maze.walls \ maze'.walls) <= 1
                  /\ \A w \in maze.walls \ maze'.walls :
                        \E n \in Range(neighbours(cell, maze.config)) :
                            n[1] \in maze.explored /\ w = wall(cell, n[2], maze.config)]_vars

\* Prim has taken a frontier cell that had an explored neighbour and the
\* frontier is not yet empty
C19_Witness ==
    /\ Generating
    /\ gen.type = "Prim"
    /\ ticks >= 2
    /\ gen.cells # {}
    /\ Removed(maze) # {}


\* ---------------------------------------------------------------------------
\* Eller on grids wide and high enough for a set to sit in a row in two pieces
\* ---------------------------------------------------------------------------

EllerInit ==
    /\ maze \in {Maze_new(c, Coord(0, 0), Coord(c.maze_width - 1, c.maze_height - 1)) :
                    c \in {cc \in [maze_width : 1..MaxEllerSide, maze_height : 1..MaxEllerSide,
                                   cell_size : {MaxCellSize}] :
                              cc.maze_width * cc.maze_height >= 2}}
    /\ gen = Eller_new(maze)
    /\ solver = NoSolver
    /\ phase = "generate"
    /\ result = "Ok"
    /\ post = FALSE
    /\ ticks = 0
    /\ maze2 = NoRun
    /\ gen2 = NoRun
    /\ call = NoCall
    /\ ret = NoCall

SpecEller == EllerInit /\ [][EllerTick]_vars

\* the cells of row y
Row(y, config) == {Coord(x, y) : x \in 0..(config.maze_width - 1)}

\* C20: for every row y above the last one, when the vertical pass of row y
\* ends (mode goes back to Horizontal), every set with a member in row y has a
\* member in row y whose south wall is removed, whatever the draws were.
C20_EllerForcedCarry ==
    [][(Generating /\ Generating' /\ gen.mode = "Vertical" /\ gen'.mode = "Horizontal"
          /\ gen.current.y < gen.last_row)
          => \A c \in Row(gen.current.y, maze.config) :
                /\ c \in DOMAIN gen'.coord_to_set
                /\ \E d \in Row(gen.current.y, maze.config) :
                      /\ d \in DOMAIN gen'.coord_to_set
                      /\ gen'.coord_to_set[d] = gen'.coord_to_set[c]
                      /\ south_wall(d, maze.config) \notin maze'.walls]_vars

\* the vertical pass of the middle row has ended with one set in two pieces
\* around a cell of another set
C20_Witness ==
    /\ Generating
    /\ gen.mode = "Horizontal"
    /\ gen.current = Coord(0, 2)
    /\ {Coord(0, 1), Coord(1, 1), Coord(2, 1)} \subseteq DOMAIN gen.coord_to_set
    /\ gen.coord_to_set[Coord(0, 1)] = gen.coord_to_set[Coord(2, 1)]
    /\ gen.coord_to_set[Coord(1, 1)] # gen.coord_to_set[Coord(0, 1)]
    /\ ~post


\* the cells of the row of current that the vertical pass has processed: the
\* pass starts at the east end of the row and walks west, current being the
\* cell the next tick will process
VerticalProcessed(g, m) ==
    {c \in Row(g.current.y, m.config) : g.mode = "Vertical" /\ c.x > g.current.x}

\* C21: Eller's is_done() is false in every state in which the vertical pass
\* of the final row has not yet processed all W cells of that row.
C21_EllerDoneAfterFinalRow ==
    (Generating /\ gen.type = "Eller" /\ ~post /\ gen.current.y = gen.last_row
        /\ gen.mode = "Vertical"
        /\ Cardinality(VerticalProcessed(gen, maze)) < maze.config.maze_width)
        => ~Generator_is_done(gen)


\* ---------------------------------------------------------------------------
\* Hunt-and-Kill scan
\* ---------------------------------------------------------------------------

HuntInit ==
    /\ maze \in {Maze_new(c, Coord(0, 0), Coord(c.maze_width - 1, c.maze_height - 1)) :
                    c \in {cc \in [maze_width : 1..MaxHuntCells, maze_height : 1..MaxHuntCells,
                                   cell_size : {MaxCellSize}] :
                              cc.maze_width * cc.maze_height \in 2..MaxHuntCells}}
    /\ gen = HuntKill_new(maze)
    /\ solver = NoSolver
    /\ phase = "generate"
    /\ result = "Ok"
    /\ post = FALSE
    /\ ticks = 0
    /\ maze2 = NoRun
    /\ gen2 = NoRun
    /\ call = NoCall
    /\ ret = NoCall

SpecHunt == HuntInit /\ [][HuntKillTick]_vars

\* the unexplored cells of m that have an explored neighbour
HuntCandidates(m) ==
    {c \in Coords(m.config) :
        c \notin m.explored /\ \E n \in Range(neighbours(c, m.config)) : n[1] \in m.explored}

\* the position of c when the grid is read row by row
RowMajor(c, config) == c.y * config.maze_width + c.x

\* C22: a hunt tick links its current cell only when that cell is unexplored
\* and has an explored neighbour, and that cell is the first such cell of the
\* whole grid in row-major order; is_done() becomes true only when no
\* unexplored cell remains.
C22_HuntFindsFirstCandidate ==
    /\ []((Generating /\ gen.type = "HuntKill" /\ Generator_is_done(gen))
            => Coords(maze.config) \subseteq maze.explored)
    /\ [][(Generating /\ Generating' /\ gen.type = "HuntKill" /\ gen.mode = "Hunt"
            /\ maze'.walls # maze.walls)
            => /\ gen.current # None
               /\ gen.current[1] \in HuntCandidates(maze)
               /\ \A c \in HuntCandidates(maze) :
                     RowMajor(gen.current[1], maze.config) <= RowMajor(c, maze.config)]_vars


\* a hunt has just found a cell away from the west column and the north row,
\* while an earlier hunt had already moved the scan start off the west column
C22_Witness ==
    /\ Generating
    /\ gen.type = "HuntKill"
    /\ gen.mode = "Kill"
    /\ gen.current # None
    /\ gen.current[1] \notin maze.explored
    /\ gen.current[1].x > 0
    /\ gen.current[1].y > 0
    /\ gen.last_completed_row = gen.current[1].y
    /\ Removed(maze) # {}


\* ---------------------------------------------------------------------------
\* Recursive backtracker step
\* ---------------------------------------------------------------------------

\* the in-bounds neighbours of c that are not explored
UnexploredNeighbours(m, c) ==
    {n \in Range(neighbours(c, m.config)) : n[1] \notin m.explored}

\* C23: a recursive backtracker tick on a current with an unexplored in-bounds
\* neighbour removes the wall towards one such neighbour, pushes current and
\* makes the neighbour current; only with no unexplored neighbour does it pop
\* the stack into current; is_done() is true exactly when current is None,
\* which comes only from popping an empty stack.
C23_BacktrackerStep ==
    /\ []((Generating /\ gen.type = "DFS") => (Generator_is_done(gen) <=> gen.current = None))
    /\ [][(Generating /\ Generating' /\ gen.type = "DFS" /\ gen.current # None)
            => IF UnexploredNeighbours(maze, gen.current[1]) # {}
               THEN \E n \in UnexploredNeighbours(maze, gen.current[1]) :
                       /\ maze'.walls = maze.walls \ {wall(gen.current[1], n[2], maze.config)}
                       /\ gen'.stack = Append(gen.stack, gen.current[1])
                       /\ gen'.current = Some(n[1])
               ELSE /\ maze'.walls = maze.walls
                    /\ gen'.current = IF gen.stack = <<>> THEN None
                                      ELSE Some(gen.stack[Len(gen.stack)])
                    /\ gen'.stack = IF gen.stack = <<>> THEN <<>>
                                    ELSE SubSeq(gen.stack, 1, Len(gen.stack) - 1)]_vars


\* ---------------------------------------------------------------------------
\* Sorted queues
\* ---------------------------------------------------------------------------

SortedSolvers == {"Dijkstra", "Greedy", "AStar"}

\* the key the queue of solver s is sorted by
Key(s, n) == IF s.type = "Dijkstra" THEN n.dist ELSE n.score

\* the key the claim names: accumulated dist, Manhattan distance to the goal,
\* or their sum
NamedKey(s, n) ==
    CASE s.type = "Dijkstra" -> path_len(n)
      [] s.type = "Greedy" -> manhattan_dist(n.coord, s.goal)
      [] s.type = "AStar" -> path_len(n) + manhattan_dist(n.coord, s.goal)

\* C24: for Dijkstra, Greedy and A* the queue is sorted ascending by its key
\* (accumulated dist, Manhattan distance to goal, dist + Manhattan distance)
\* at the start of every tick, and the node a tick makes current has the
\* minimum key of the queue as it stood after the tick's insertions.
C24_QueueSortedAndMinPopped ==
    /\ []((Solving /\ solver.type \in SortedSolvers)
            => /\ \A i \in 1..Len(solver.queue) :
                     Key(solver, solver.queue[i]) = NamedKey(solver, solver.queue[i])
               /\ \A i, j \in 1..Len(solver.queue) :
                     i < j => Key(solver, solver.queue[i]) <= Key(solver, solver.queue[j]))
    /\ [][(Solving /\ Solving' /\ solver.type \in SortedSolvers /\ result' = "Ok")
            => \A i \in 1..Len(solver'.queue) :
                  Key(solver, solver'.current) <= Key(solver, solver'.queue[i])]_vars

\* a tick has popped the smallest of at least three queued nodes with two
\* different keys
C24_Witness ==
    /\ Solving
    /\ solver.type \in SortedSolvers
    /\ result = "Ok"
    /\ ticks >= 2
    /\ Len(solver.queue) >= 2
    /\ Key(solver, solver.queue[1]) < Key(solver, solver.queue[Len(solver.queue)])


\* ---------------------------------------------------------------------------
\* Dijkstra against breadth-first search
\* ---------------------------------------------------------------------------

\* the BFS solver after k ticks on the maze m, started from s
RECURSIVE BFS_run(_, _, _)
BFS_run(s, m, k) ==
    IF k = 0 THEN s
    ELSE LET out == CHOOSE o \in BFS_tick(s, m) : TRUE
         IN IF out.result # "Ok" THEN out.solver
            ELSE BFS_run(out.solver, out.maze, k - 1)

\* C25: Dijkstra dequeues entries of equal accumulated distance in the order
\* they were inserted, so it makes cells current in the same order as a FIFO
\* breadth-first search of the same maze.
C25_DijkstraVisitsInBFSOrder ==
    (Solving /\ solver.type = "Dijkstra" /\ ~post /\ result = "Ok")
        => solver.current.coord =
              BFS_run(BFS_new(ResetMarkers(maze)), ResetMarkers(maze), ticks).current.coord


\* ---------------------------------------------------------------------------
\* Solver markers
\* ---------------------------------------------------------------------------

QueueSolvers == {"BFS", "Dijkstra", "Greedy", "AStar"}

\* C26: for BFS, Dijkstra, Greedy and A*, started with highlight_dark empty,
\* after every tick that returns Ok maze.highlight_dark is exactly the set of
\* coordinates held in the solver's queue.
C26_DarkIsQueue ==
    [][(Solving /\ Solving' /\ solver.type \in QueueSolvers /\ result' = "Ok")
          => maze'.highlight_dark = {solver'.queue[i].coord : i \in 1..Len(solver'.queue)}]_vars

\* a tick has left two cells waiting in the queue
C26_Witness ==
    /\ Solving
    /\ solver.type \in QueueSolvers
    /\ result = "Ok"
    /\ ticks >= 2
    /\ Cardinality(maze.highlight_dark) >= 2


\* the coordinates on the parent chain from current back to the start cell;
\* for DFS the chain is the stack plus current
ParentChain(s) ==
    IF s.type = "DFS" THEN Range(s.stack) \cup {s.current} ELSE path_coords(s.current)

\* C27: for every solver, DFS included, after every tick that returns Ok
\* maze.highlight_medium is exactly the set of coordinates on the parent
\* chain from current back to the start cell, both ends included.
C27_MediumIsParentChain ==
    [][(Solving /\ Solving' /\ result' = "Ok")
          => maze'.highlight_medium = ParentChain(solver')]_vars


\* ---------------------------------------------------------------------------
\* Generator errors
\* ---------------------------------------------------------------------------

\* C28: from a fresh maze no tick of any generator returns an error:
\* MissingSet is unreachable in Kruskal, NotNeighbours and BorderWall are
\* unreachable in the calls of DFS and Hunt-and-Kill to Maze::link.
C28_GeneratorsNeverFail == Generating => result = "Ok"

\* a generator has linked or joined cells at least twice
C28_Witness ==
    /\ Generating
    /\ gen.type \in {"DFS", "Kruskal", "HuntKill"}
    /\ result = "Ok"
    /\ ticks >= 3
    /\ Cardinality(Removed(maze)) >= 2


\* the pairs of neighbouring cells with no wall between them
Links(m) ==
    UNION {{{c, n[1]} : n \in {nn \in Range(neighbours(c, m.config)) :
                                  wall(c, nn[2], m.config) \notin m.walls}} :
             c \in Coords(m.config)}

\* the partition P after the cells of every pair of E are put together
RECURSIVE Parts(_, _)
Parts(P, E) ==
    IF E = {} THEN P
    ELSE LET e == CHOOSE x \in E : TRUE
             hit == {s \in P : s \cap e # {}}
         IN Parts((P \ hit) \cup {UNION hit}, E \ {e})

\* the removed walls form a forest: each of them joins two parts into one
Forest(m) ==
    Cardinality(Links(m)) =
        NumCells(m) - Cardinality(Parts({{c} : c \in Coords(m.config)}, Links(m)))

\* C29: in every reachable state of every generator run, not only at
\* completion, the graph of the removed interior walls is acyclic, so at most
\* W*H-1 walls are removed.
C29_RemovedWallsFormForest ==
    Generating => (Forest(maze) /\ Cardinality(Removed(maze)) <= NumCells(maze) - 1)

\* a run is under way with some walls removed and some cell not yet reached
C29_Witness ==
    /\ Generating
    /\ ~Generator_is_done(gen)
    /\ ~post
    /\ Cardinality(Removed(maze)) >= 2
    /\ ~Connected(maze)


\* ---------------------------------------------------------------------------
\* Kruskal sets
\* ---------------------------------------------------------------------------

\* a and b are members of one set of the Kruskal generator g
SameSet(g, a, b) == \E s \in g.sets : a \in s /\ b \in s

\* C30: after every Kruskal tick the sets are pairwise disjoint and cover all
\* cells, two cells are in the same set exactly when removed walls connect
\* them, and no pending wall lies between two cells of the same set; hence
\* every popped wall joins two different sets and the generator is done after
\* exactly W*H-1 ticks.
C30_KruskalUnionFind ==
    /\ []((Generating /\ gen.type = "Kruskal" /\ ~post)
            => /\ \A s, t \in gen.sets : s # t => s \cap t = {}
               /\ UNION gen.sets = Coords(maze.config)
               /\ \A a, b \in Coords(maze.config) :
                     SameSet(gen, a, b) <=> b \in Reach(maze, {a})
               /\ \A i \in 1..Len(gen.walls) :
                     \A a, b \in DividedCells(gen.walls[i], maze.config) :
                        a # b => ~SameSet(gen, a, b)
               /\ Generator_is_done(gen) => ticks = NumCells(maze) - 1)
    /\ [][(Generating /\ Generating' /\ gen.type = "Kruskal" /\ ~Generator_is_done(gen))
            => Cardinality(gen'.sets) = Cardinality(gen.sets) - 1]_vars


\* ---------------------------------------------------------------------------
\* The cells on the two sides of a wall
\* ---------------------------------------------------------------------------

\* C31: for every cell size (even and odd), every grid size and every interior
\* wall w = wall(a, d) with in-bounds neighbour b, divided_coords(w) returns
\* the two distinct cells a and b, as (up, down) or (left, right), never the
\* same cell twice.
C31_DividedCoordsAreTheTwoCells ==
    (call # NoCall /\ call.op = "divided_coords" /\ InGrid(Step(call.c, call.d), call.config))
        => /\ ret[1] # ret[2]
           /\ ret = IF call.d \in {"South", "East"}
                    THEN <<call.c, Step(call.c, call.d)>>
                    ELSE <<Step(call.c, call.d), call.c>>


\* ---------------------------------------------------------------------------
\* BFS: how often a coordinate is queued
\* ---------------------------------------------------------------------------

\* the coordinates waiting in the queue of solver s, in queue order
QueueCoords(s) == [i \in 1..Len(s.queue) |-> s.queue[i].coord]

\* C32: in the BFS solver every coordinate is enqueued at most once and is
\* current at most once over the whole run; in particular the start cell is
\* never put on the queue.  A coordinate leaves the queue only by becoming
\* current, which puts it in maze.explored: so no coordinate waits twice in
\* the queue, no explored coordinate waits in it, the start cell never waits
\* in it, and the start cell is current only as the root of the parent chain.
C32_BFSEnqueuesOnce ==
    (Solving /\ solver.type = "BFS" /\ ~post)
        => /\ \A i, j \in 1..Len(solver.queue) :
                 i # j => QueueCoords(solver)[i] # QueueCoords(solver)[j]
           /\ \A i \in 1..Len(solver.queue) :
                 /\ QueueCoords(solver)[i] \notin maze.explored
                 /\ QueueCoords(solver)[i] # maze.start
           /\ solver.current.coord = maze.start => solver.current.previous = None


\* ---------------------------------------------------------------------------
\* Termination of the generators
\* ---------------------------------------------------------------------------

MaxTermCells == 4

TermInit ==
    /\ maze \in Mazes(MaxTermCells)
    /\ gen \in Generator_init(maze)
    /\ solver = NoSolver
    /\ phase = "generate"
    /\ result = "Ok"
    /\ post = FALSE
    /\ ticks = 0
    /\ maze2 = NoRun
    /\ gen2 = NoRun
    /\ call = NoCall
    /\ ret = NoCall

TermNext ==
    \/ GenDFSTick
    \/ KruskalTick
    \/ PrimTick
    \/ EllerTick
    \/ HuntKillTick

\* the generator is ticked again and again: a tick that can be made is made
SpecTerm == TermInit /\ [][TermNext]_vars /\ WF_vars(TermNext)

\* C33: every generator terminates for every grid, start and end cell and
\* every sequence of random draws: is_done() becomes true after a bounded
\* number of ticks, with no fairness assumed of the random source; Eller's
\* after exactly (2H-1)*W ticks and the recursive backtracker's after at most
\* 2*W*H-1 ticks.
C33_GeneratorsTerminate ==
    /\ <>(Generator_is_done(gen) /\ result = "Ok")
    /\ [](~post => ticks <= 2 * NumCells(maze) * NumCells(maze))
    /\ []((gen.type = "Eller" /\ ~post /\ Generator_is_done(gen))
            => ticks = (2 * maze.config.maze_height - 1) * maze.config.maze_width)
    /\ []((gen.type = "DFS" /\ ~post) => ticks <= 2 * NumCells(maze) - 1)

\* Eller's algorithm has just finished a grid of two rows or more
C33_Witness ==
    /\ Generating
    /\ gen.type = "Eller"
    /\ maze.config.maze_height >= 2
    /\ maze.config.maze_width >= 2
    /\ Generator_is_done(gen)
    /\ ~post
    /\ ticks = (2 * maze.config.maze_height - 1) * maze.config.maze_width


\* ---------------------------------------------------------------------------
\* Eller: panics
\* ---------------------------------------------------------------------------

\* C34: Eller's tick never panics: join is never called on two coordinates of
\* the same set, so unreachable!() is not reached, and every index lookup in
\* coord_to_set and set_to_coords, in the vertical pass and in add and join,
\* refers to a present key.
C34_EllerNeverPanics ==
    (Generating /\ gen.type = "Eller")
        => /\ result # "panic"
           /\ gen.mode = "Vertical" => ~Eller_vertical_panics(gen, maze)
           /\ \A b \in BOOLEAN : Eller_tick(gen, maze, b).result = "Ok"

\* a horizontal pass has joined two sets that both came down from the row
\* above: the wall between two cells of a lower row is gone, and so are the
\* walls above both of them
C34_Witness ==
    /\ Generating
    /\ gen.type = "Eller"
    /\ result = "Ok"
    /\ \E c \in Coords(maze.config) :
          /\ c.y >= 1
          /\ c.x + 1 < maze.config.maze_width
          /\ east_wall(c, maze.config) \notin maze.walls
          /\ north_wall(c, maze.config) \notin maze.walls
          /\ north_wall(Step(c, "East"), maze.config) \notin maze.walls


\* ---------------------------------------------------------------------------
\* Hunt-and-Kill: where the scan starts
\* ---------------------------------------------------------------------------

\* C35: in Hunt-and-Kill all cells in the rows above last_completed_row are
\* explored, and whenever a hunt starts at (last_completed_column,
\* last_completed_row) all cells of that row left of last_completed_column
\* are explored.
C35_HuntScanStart ==
    /\ []((Generating /\ gen.type = "HuntKill")
            => \A c \in Coords(maze.config) :
                  c.y < gen.last_completed_row => c \in maze.explored)
    /\ [][(Generating /\ Generating' /\ gen.type = "HuntKill"
            /\ gen.mode = "Kill" /\ gen'.mode = "Hunt")
            => /\ gen'.current = Some(Coord(gen'.last_completed_column,
                                            gen'.last_completed_row))
               /\ \A c \in Coords(maze.config) :
                     (c.y = gen'.last_completed_row /\ c.x < gen'.last_completed_column)
                        => c \in maze'.explored]_vars

\* a hunt is starting away from the west column and the north row
C35_Witness ==
    /\ Generating
    /\ gen.type = "HuntKill"
    /\ gen.mode = "Hunt"
    /\ ~post
    /\ gen.current = Some(Coord(gen.last_completed_column, gen.last_completed_row))
    /\ gen.last_completed_column > 0
    /\ gen.last_completed_row > 0


\* ---------------------------------------------------------------------------
\* Recursive backtracker: the end cell
\* ---------------------------------------------------------------------------

\* the directions in which the wall of cell c has been removed from m
OpenSides(m, c) == {d \in Range(Directions) : wall(c, d, m.config) \notin m.walls}

\* C36: in a maze generated by the recursive backtracker the end cell is a
\* dead end: exactly one of its walls is removed when the generator is done.
C36_EndIsDeadEnd ==
    (Generating /\ gen.type = "DFS" /\ result = "Ok" /\ Generator_is_done(gen))
        => Cardinality(OpenSides(maze, maze.end)) = 1

\* the backtracker is done on a grid whose end cell has three neighbours
C36_Witness ==
    /\ Generating
    /\ gen.type = "DFS"
    /\ result = "Ok"
    /\ Generator_is_done(gen)
    /\ ~post
    /\ Len(neighbours(maze.end, maze.config)) >= 3


\* ---------------------------------------------------------------------------
\* Generators: the explored set
\* ---------------------------------------------------------------------------

\* C37: when any generator reports is_done() on a grid of two cells or more,
\* maze.explored contains every cell of the grid, and during generation
\* maze.explored only grows.
C37_ExploredCoversGrid ==
    /\ []((Generating /\ result = "Ok" /\ Generator_is_done(gen) /\ NumCells(maze) >= 2)
            => Coords(maze.config) \subseteq maze.explored)
    /\ [][(Generating /\ Generating') => maze.explored \subseteq maze'.explored]_vars


\* ---------------------------------------------------------------------------
\* Solvers: what a tick leaves alone
\* ---------------------------------------------------------------------------

\* C38: no solver tick changes maze.walls, maze.start or maze.end, whether it
\* returns Ok or Err(ImpossibleMaze).
C38_SolverTickKeepsMaze ==
    [][(Solving /\ Solving' /\ solver # NoSolver)
          => /\ maze'.walls = maze.walls
             /\ maze'.start = maze.start
             /\ maze'.end = maze.end
             /\ maze'.config = maze.config]_vars

\* a solver has run out of cells in a maze that has walls removed and walls
\* standing
C38_Witness ==
    /\ Solving
    /\ result = "ImpossibleMaze"
    /\ ticks >= 2
    /\ Removed(maze) # {}
    /\ \E w \in maze.walls : ~w.border

\* a solver has reached the end cell by ticks that returned Ok
C38_WitnessOk ==
    /\ Solving
    /\ result = "Ok"
    /\ ticks >= 2
    /\ Solver_is_done(solver)
    /\ \E w \in maze.walls : ~w.border


\* ---------------------------------------------------------------------------
\* Maze::new: the loop that draws the end cell again
\* ---------------------------------------------------------------------------

(***************************************************************************)
(* Maze::new step by step: start and end are taken from the configuration  *)
(* or drawn, then every turn of `while start == end` draws end again, and  *)
(* the maze is returned when the loop is left.  call keeps the             *)
(* configuration, ret the start and end held so far.                       *)
(***************************************************************************)
LoopInit ==
    /\ maze = NoRun
    /\ gen = NoGenerator
    /\ solver = NoSolver
    /\ phase = "new"
    /\ result = "Ok"
    /\ post = FALSE
    /\ ticks = 0
    /\ maze2 = NoRun
    /\ gen2 = NoRun
    /\ call = NoCall
    /\ ret = NoCall

MazeNewBegin ==
    /\ phase = "new"
    /\ \E config \in NewConfigs :
       \E cstart, cend \in {None} \cup {Some(c) : c \in Coords(config)} :
       \E rstart, rend \in Coords(config) :
          /\ call' = [op |-> "Maze::new", config |-> config, start |-> cstart, end |-> cend]
          /\ ret' = [start |-> IF cstart # None THEN cstart[1] ELSE rstart,
                     end |-> IF cend # None THEN cend[1] ELSE rend]
    /\ phase' = "loop"
    /\ UNCHANGED <<maze, gen, solver, result, post, ticks, maze2, gen2>>

MazeNewRedraw ==
    /\ phase = "loop"
    /\ ret.start = ret.end
    /\ \E c \in Coords(call.config) : ret' = [ret EXCEPT !.end = c]
    /\ UNCHANGED <<maze, gen, solver, phase, result, post, ticks, maze2, gen2, call>>

MazeNewReturn ==
    /\ phase = "loop"
    /\ ret.start # ret.end
    /\ maze' = Maze_new(call.config, ret.start, ret.end)
    /\ phase' = "returned"
    /\ UNCHANGED <<gen, solver, result, post, ticks, maze2, gen2, call, ret>>

LoopNext ==
    \/ MazeNewBegin
    \/ MazeNewRedraw
    \/ MazeNewReturn

\* the constructor runs on, and the random source does not hand back the
\* start cell for ever when it can draw another cell
SpecNewLoop ==
    LoopInit /\ [][LoopNext]_vars /\ WF_vars(MazeNewBegin) /\ WF_vars(MazeNewRedraw)
        /\ WF_vars(MazeNewReturn)

\* C39: Maze::new terminates for every grid with W, H >= 1, given a random
\* source that eventually produces every coordinate, the 1x1 grid included
\* and a configuration whose fixed start and end are the same coordinate
\* included.
C39_MazeNewTerminates == <>(phase = "returned")


\* ---------------------------------------------------------------------------
\* Eller: the two indexes
\* ---------------------------------------------------------------------------

\* C40: Eller's two indexes agree: coord_to_set[c] = s exactly when c occurs
\* in set_to_coords[s]; no coordinate occurs twice in a set or in two sets;
\* set_to_coords holds no empty set; every set id is at most last_set; and
\* two coordinates share a set id exactly when they are connected through
\* removed walls.
C40_EllerIndexesAgree ==
    (Generating /\ gen.type = "Eller")
        => /\ \A c \in Coords(maze.config) : \A s \in 0..gen.last_set :
                 (c \in DOMAIN gen.coord_to_set /\ gen.coord_to_set[c] = s)
                    <=> (s \in DOMAIN gen.set_to_coords /\ c \in Range(gen.set_to_coords[s]))
           /\ DOMAIN gen.coord_to_set \subseteq Coords(maze.config)
           /\ \A s \in DOMAIN gen.set_to_coords :
                 /\ gen.set_to_coords[s] # <<>>
                 /\ s <= gen.last_set
                 /\ \A i, j \in 1..Len(gen.set_to_coords[s]) :
                       i # j => gen.set_to_coords[s][i] # gen.set_to_coords[s][j]
                 /\ \A t \in DOMAIN gen.set_to_coords :
                       s # t => Range(gen.set_to_coords[s]) \cap Range(gen.set_to_coords[t]) = {}
           /\ \A c \in DOMAIN gen.coord_to_set : gen.coord_to_set[c] <= gen.last_set
           /\ {{b \in DOMAIN gen.coord_to_set : gen.coord_to_set[b] = gen.coord_to_set[a]} :
                    a \in DOMAIN gen.coord_to_set}
                = {p \cap DOMAIN gen.coord_to_set :
                      p \in Parts({{c} : c \in Coords(maze.config)}, Links(maze))} \ {{}}

\* a join has moved a set of two cells or more into another set while a
\* third set is still in the index
C40_Witness ==
    /\ Generating
    /\ gen.type = "Eller"
    /\ result = "Ok"
    /\ ~post
    /\ Cardinality(DOMAIN gen.set_to_coords) >= 2
    /\ \E s \in DOMAIN gen.set_to_coords : Len(gen.set_to_coords[s]) >= 4
    /\ Cardinality(DOMAIN gen.set_to_coords) < gen.last_set

====
